---- MODULE Spec2Model ----
(***************************************************************************)
(* State-machine model of the Naukri automation bot:                       *)
(*   utils.py           login                                              *)
(*   apply_jobs.py      apply_for_jobs, search_for_jobs,                   *)
(*                      process_job_listings, check_and_apply              *)
(*   share_interest.py  share_interest                                     *)
(*   rotate_headline.py rotate_headline                                    *)
(*   main.py            job                                                *)
(* The browser and the site are the environment: what a page shows and     *)
(* which driver call raises is chosen nondeterministically.                *)
(***************************************************************************)
EXTENDS Integers, Sequences, FiniteSets, TLC

\* ------------------------------------------------------------------ bounds
\* Largest MAX_APPLICATIONS the run configuration is drawn from.
MaxTarget == 3
\* Largest number of rows a results page holds (len(job_listings)).
MaxRows == 16
\* Largest number of result pages one search walks through (recursion depth).
MaxPages == 2
\* Largest number of detail tabs left open that the model tracks.
MaxLeaked == 1
\* Largest number of dialogs a detail view shows after the apply click.
MaxDialogs == 2
\* Largest number of rows of the recommended-roles feed.
MaxFeed == 2
\* Largest EARLY_ACCESS_ROLES_LIMIT the run configuration is drawn from.
MaxShareLimit == 1
\* Largest EARLY_ACCESS_ROLES_LIMIT of share_interest.py run on its own.
MaxLimit == 2
\* Largest number of elements of a detail view that bear on the apply control.
MaxElements == 2
\* Largest number of records in headlines.json.
MaxPool == 2
\* Largest number of entries of the working directory.
MaxFiles == 3
\* Largest number of options of the experience dropdown.
MaxOptions == 4
\* Largest number of words of the text of a detail view.
MaxPageWords == 4

\* ------------------------------------------------------- program constants
\* utils.py: def login(driver, max_attempts=3)
max_attempts == 3
\* apply_jobs.py: max_search_attempts = 3
max_search_attempts == 3
\* apply_jobs.py: max_jobs_to_process = max_applications * 5
ProcessFactor == 5

VARIABLES
    \* a function of the program called on its own: its name, its argument,
    \* whether it has returned, and what it returned
    call,
    \* run configuration (read from the environment, fixed during a run)
    creds,          \* whether NAUKRI_EMAIL, NAUKRI_PASSWORD are set and non-empty
    target,         \* MAX_APPLICATIONS
    \* configuration as read where the code reads it
    earlyAccess,    \* EARLY_ACCESS_ROLES == "true" when the loop over a page ends with
                    \* the ceiling reached; the code reads it at apply_jobs.py 366
    shareLimit,     \* EARLY_ACCESS_ROLES_LIMIT, read at share_interest.py 25
    \* main.py job()
    jpc,
    \* browser sessions that are live, by the task that called init_driver
    sessions,
    \* quits[t]: how often task t called driver.quit() in its current run
    quits,
    \* loginRes[t]: what login returned to task t in its current run
    loginRes,
    \* utils.py login(): position, caller and locals
    lpc, lcaller, attempt, submits, failed, navs, url, lresult,
    \* rotate_headline.py rotate_headline(): position and locals
    rpc, current_headline, data, headline, early,
    \* the headline text that is live on the profile
    profile,
    \* the call of update_resume_headline and the call of upload_resume that
    \* rotate_headline made last: what each met and what it returned
    upd, upl,
    \* apply_jobs.py apply_for_jobs(): position and locals
    apc, applied, searches,
    job_titles, locations, selected_job_title, selected_location,
    \* the call of search_for_jobs that apply_for_jobs made last
    lastSearch,
    \* the count the listing pass that ended last returned (apply_jobs.py 67, 87)
    new_applications,
    \* apply_jobs.py process_job_listings(): call stack and the top call's locals
    frames, ppc, pending, processed, lastEval,
    \* how the run of share_interest.py for the page in hand went, if there was
    \* one; what the pagination step of the call in hand did (apply_jobs.py 464-478)
    sideRun, pageStep,
    \* the browser of apply_for_jobs: windows and focus
    focus, mainOpen, leaked, mainWindow,
    \* share_interest.py share_interest()
    spc, shared, feed, sidx,
    \* the clicks on a share control that returned: all of them, and those on
    \* rows of the row set fetched last; what the row before did
    shareClicks, setClicks, rowEvent

loginVars == <<lpc, lcaller, attempt, submits, failed, navs, url, lresult>>
configVars == <<call, creds, target, earlyAccess, shareLimit>>
browserVars == <<focus, mainOpen, leaked, mainWindow>>
listingVars == <<frames, ppc, pending, processed, lastEval>>
applyVars == <<apc, applied, searches>>
searchVars == <<job_titles, locations, selected_job_title, selected_location, lastSearch,
                new_applications>>
rotateVars == <<rpc, current_headline, data, headline, early, profile, upd, upl>>
shareVars == <<spc, shared, feed, sidx, shareClicks, setClicks, rowEvent>>
vars == <<call, creds, target, earlyAccess, shareLimit, jpc, sessions, quits, loginRes,
          lpc, lcaller, attempt, submits, failed, navs, url, lresult,
          rpc, current_headline, data, headline, early, profile, upd, upl,
          apc, applied, searches,
          job_titles, locations, selected_job_title, selected_location, lastSearch,
          new_applications,
          frames, ppc, pending, processed, lastEval, sideRun, pageStep,
          focus, mainOpen, leaked, mainWindow,
          spc, shared, feed, sidx, shareClicks, setClicks, rowEvent>>

Tasks == {"rotate", "apply", "share"}

\* ================================================================== login
\* utils.py 90-169.  url is the pair of facts the code tests on
\* driver.current_url: whether it contains "login", and whether it contains
\* "logout" or "mnjuser/profile".
NoUrl == [login |-> FALSE, auth |-> FALSE]
Urls == [login : BOOLEAN, auth : BOOLEAN]

\* "logout" in url or "mnjuser/profile" in url            (utils.py 116)
AlreadyLoggedIn(u) == u.auth
\* "login" not in driver.current_url.lower()              (utils.py 147)
LoginSucceeded(u) == ~u.login

\* MissingCredentials that needs both to be missing.
MissingCredentials_Both(c) == ~c.email /\ ~c.password

\* not email or not password                               (utils.py 95)
MissingCredentials(c) == ~c.email \/ ~c.password

\* A task calls login(driver): the locals are fresh.
CallLogin(t) ==
    /\ lpc' = "l_creds"
    /\ lcaller' = t
    /\ attempt' = 0
    /\ submits' = 0
    /\ failed' = 0
    /\ navs' = 0
    /\ url' = NoUrl
    /\ lresult' = "none"

\* The caller has taken login's result: the locals are gone.
EndLogin ==
    /\ lpc' = "l_idle"
    /\ lcaller' = "none"
    /\ attempt' = 0
    /\ submits' = 0
    /\ failed' = 0
    /\ navs' = 0
    /\ url' = NoUrl
    /\ lresult' = "none"

LoginReturn(r) ==
    /\ lpc' = "l_ret"
    /\ lresult' = r

\* What the wait for the login page's title does when the title never
\* contains "Login" (utils.py 105-108): the function returns failure.
TitleTimeout ==
    /\ LoginReturn("false")
    /\ UNCHANGED <<attempt, failed>>

otherThanLogin == <<call, creds, target, earlyAccess, sideRun, pageStep, shareLimit, jpc, sessions, quits, loginRes,
                    rotateVars, apc, applied, searches, searchVars,
                    frames, ppc, pending, processed, lastEval,
                    focus, mainOpen, leaked, mainWindow, spc, shared, feed, sidx, shareClicks, setClicks, rowEvent>>

\* utils.py 92-97: missing credentials return failure at once.
LoginCheckCreds ==
    /\ lpc = "l_creds"
    /\ IF MissingCredentials(creds)
         THEN LoginReturn("false")
         ELSE lpc' = "l_nav" /\ UNCHANGED lresult
    /\ UNCHANGED <<lcaller, attempt, submits, failed, navs, url>>
    /\ UNCHANGED otherThanLogin

\* utils.py 100: driver.get(login page).  A driver that cannot navigate
\* raises, and login has no handler around this call.
LoginNavigate ==
    /\ lpc = "l_nav"
    /\ \/ /\ LoginReturn("raise")
          /\ UNCHANGED <<navs, url>>
       \/ /\ \E u \in Urls : url' = u
          /\ navs' = navs + 1
          /\ lpc' = "l_wait"
          /\ UNCHANGED lresult
    /\ UNCHANGED <<lcaller, attempt, submits, failed>>
    /\ UNCHANGED otherThanLogin

\* utils.py 102-110: wait up to 10 s for a title containing "Login".
LoginWaitTitle ==
    /\ lpc = "l_wait"
    /\ \/ TitleTimeout
       \/ /\ lpc' = "l_loop"
          /\ attempt' = 1
          /\ UNCHANGED <<lresult, failed>>
    /\ UNCHANGED <<lcaller, submits, navs, url>>
    /\ UNCHANGED otherThanLogin

\* AfterFailedAttempt with the increment forgotten.
AfterFailedAttempt_Same(a) == a

\* What a failed attempt does to the attempt counter (utils.py 158, 164).
AfterFailedAttempt(a) == a + 1

\* utils.py 111, 167-169: the loop test, and the failure after the loop.
LoginLoop ==
    /\ lpc = "l_loop"
    /\ IF attempt <= max_attempts
         THEN lpc' = "l_try" /\ UNCHANGED lresult
         ELSE LoginReturn("false")
    /\ UNCHANGED <<lcaller, attempt, submits, failed, navs, url>>
    /\ UNCHANGED otherThanLogin

\* utils.py 112-139: already-logged-in test, then locate and fill the two
\* fields and locate the button; any of the waits may raise.
LoginTry ==
    /\ lpc = "l_try"
    /\ IF AlreadyLoggedIn(url)
         THEN /\ LoginReturn("true")
              /\ UNCHANGED <<attempt, failed>>
         ELSE \/ /\ lpc' = "l_submit"
                 /\ UNCHANGED <<attempt, failed, lresult>>
              \/ /\ attempt' = AfterFailedAttempt(attempt)
                 /\ failed' = failed + 1
                 /\ lpc' = "l_loop"
                 /\ UNCHANGED lresult
    /\ UNCHANGED <<lcaller, submits, navs, url>>
    /\ UNCHANGED otherThanLogin

\* utils.py 140-165: click the button, settle, classify by the URL.
LoginSubmit ==
    /\ lpc = "l_submit"
    /\ submits' = submits + 1
    /\ \E u \in Urls :
         /\ url' = u
         /\ \/ /\ LoginSucceeded(u)
               /\ LoginReturn("true")
               /\ UNCHANGED <<attempt, failed>>
            \/ /\ ~LoginSucceeded(u)
               /\ attempt' = AfterFailedAttempt(attempt)
               /\ failed' = failed + 1
               /\ lpc' = "l_loop"
               /\ UNCHANGED lresult
            \/ \* the click, or reading current_url after it, raised
               /\ attempt' = AfterFailedAttempt(attempt)
               /\ failed' = failed + 1
               /\ lpc' = "l_loop"
               /\ UNCHANGED lresult
    /\ UNCHANGED <<lcaller, navs>>
    /\ UNCHANGED otherThanLogin

\* ======================================================== check_and_apply
\* apply_jobs.py 486-700.  An observation is what the detail view shows and
\* which driver call raises while check_and_apply runs; a field the code does
\* not read on a path is left at its default there.
DialogRaises == {"no", "click", "after"}
Dialogs == [confirm : BOOLEAN, raises : DialogRaises, phrase : BOOLEAN, elem : BOOLEAN]
NoDialogs == <<>>

RECURSIVE SeqsUpTo(_, _)
SeqsUpTo(S, n) ==
    IF n = 0 THEN {<<>>}
    ELSE LET shorter == SeqsUpTo(S, n - 1)
         IN  shorter \cup {Append(q, x) : q \in {t \in shorter : Len(t) = n - 1}, x \in S}

DialogSeqs == SeqsUpTo(Dialogs, MaxDialogs)

\* ---------------------------------------------------------- text values
\* A text is a sequence of units (the words of a headline, the characters of
\* a file name).  A Python value that is a string or None is the record
\* [none, text].
NoneValue == [none |-> TRUE, text |-> <<>>]
Str(t) == [none |-> FALSE, text |-> t]
EmptyStr == Str(<<>>)

\* bool(v) of a string or None.
Truthy(v) == ~v.none /\ v.text # <<>>

\* sub in s, for two strings.
IsIn(sub, s) == \E i \in 0..(Len(s) - Len(sub)) : SubSeq(s, i + 1, i + Len(sub)) = sub

\* The first index of a non-empty set of indices.
First(I) == CHOOSE i \in I : \A j \in I : i <= j

\* ---------------------------------------------------- the apply controls
\* apply_jobs.py 498-532.  An element of the detail view has a tag, a text,
\* a class and a value, each a sequence of words; elements are listed in
\* document order.
Element(tag, text, cls, value) == [tag |-> tag, text |-> text, cls |-> cls, value |-> value]
PlainButton == Element("button", <<"Apply">>, <<>>, <<>>)
WebsiteButton == Element("button", <<"Apply", "on", "company", "website">>, <<>>, <<>>)
PageElements ==
    {PlainButton,
     WebsiteButton,
     Element("span", <<"Apply", "on", "company", "website">>, <<>>, <<>>),
     Element("span", <<"Apply", "on", "company", "site">>, <<>>, <<>>),
     Element("a", <<"company", "profile">>, <<"apply">>, <<>>),
     Element("input", <<>>, <<>>, <<"Apply">>),
     Element("div", <<"Details">>, <<"apply", "button">>, <<>>)}
ElementSeqs == SeqsUpTo(PageElements, MaxElements)

\* contains(text(), ...) and contains(@class, ...) of XPath.
Contains(words, s) == IsIn(s, words)

\* apply_jobs.py 499-500: the company-site indicator.
CompanySiteButtons(elements) ==
    SelectSeq(elements, LAMBDA e :
        \/ Contains(e.text, <<"Apply", "on", "company", "site">>)
        \/ Contains(e.text, <<"Apply", "on", "Company", "Site">>))

\* selectors                                     (apply_jobs.py 512-519)
selectors == <<"button", "a", "span", "div", "input", "apply-button">>

\* Does the element match the k-th selector?
Matches(k, e) ==
    CASE k = 1 -> e.tag = "button" /\ (Contains(e.text, <<"Apply">>) \/ Contains(e.cls, <<"apply">>))
      [] k = 2 -> e.tag = "a" /\ (Contains(e.text, <<"Apply">>) \/ Contains(e.cls, <<"apply">>))
      [] k = 3 -> e.tag = "span" /\ Contains(e.text, <<"Apply">>) /\ ~Contains(e.text, <<"company">>)
      [] k = 4 -> e.tag = "div" /\ Contains(e.text, <<"Apply">>) /\ ~Contains(e.text, <<"company">>)
      [] k = 5 -> e.tag = "input" /\ e.value = <<"Apply">>
      [] k = 6 -> Contains(e.cls, <<"apply", "button">>)

\* apply_jobs.py 521-523: for selector in selectors: apply_buttons.extend(...)
RECURSIVE ButtonsFrom(_, _)
ButtonsFrom(k, elements) ==
    IF k > Len(selectors) THEN <<>>
    ELSE SelectSeq(elements, LAMBDA e : Matches(k, e)) \o ButtonsFrom(k + 1, elements)
ApplyButtons(elements) == ButtonsFrom(1, elements)

\* Does the text of the control mention the word company?
MentionsCompany(e) == Contains(e.text, <<"company">>)

ObsDefault ==
    [raisesEarly |-> FALSE, elements |-> <<>>,
     clickRaises |-> FALSE, phrase |-> FALSE, elem |-> FALSE,
     dialogsRaise |-> FALSE, dialogs |-> NoDialogs, finalRaises |-> FALSE]

\* The views in which what follows the click is varied: the first matched
\* control is the plain Apply button, or the button worded for the company's
\* website.
ClickedSeqs == {<<PlainButton>>, <<WebsiteButton>>}

Observations ==
    {[ObsDefault EXCEPT !.raisesEarly = TRUE]}
    \cup {[ObsDefault EXCEPT !.elements = es] : es \in ElementSeqs}
    \cup {[ObsDefault EXCEPT !.elements = es, !.clickRaises = TRUE] : es \in ClickedSeqs}
    \cup {[ObsDefault EXCEPT !.elements = es, !.phrase = p, !.elem = e, !.finalRaises = f] :
            es \in ClickedSeqs, p \in BOOLEAN, e \in BOOLEAN, f \in BOOLEAN}
    \cup {[ObsDefault EXCEPT !.elements = es, !.dialogsRaise = TRUE] : es \in ClickedSeqs}
    \cup {[ObsDefault EXCEPT !.elements = es, !.dialogs = ds, !.finalRaises = f] :
            es \in ClickedSeqs, ds \in DialogSeqs, f \in BOOLEAN}

\* company is whether the clicked control mentions the word company.
Verdict(res, tag, clicked, success, clicks) ==
    [result |-> res, tag |-> tag, clicked |-> clicked, success |-> success,
     confirmClicks |-> clicks, company |-> FALSE]

\* apply_jobs.py 566-595 and 631-658: a listed phrase in the page source, else
\* a visible success element.
SuccessCheck(phrase, elem) == phrase \/ elem

\* apply_jobs.py 611-658: every dialog is visited in order; in a dialog with a
\* confirm control the control is clicked and the success check runs again.
\* An exception leaves the loop (handler at 660) with success as it stands.
\* Yields <<success, confirm clicks>>.
RECURSIVE ConfirmLoop(_, _, _)
ConfirmLoop(ds, success, clicks) ==
    IF ds = <<>> THEN <<success, clicks>>
    ELSE LET d == Head(ds)
         IN  IF ~d.confirm THEN ConfirmLoop(Tail(ds), success, clicks)
             ELSE IF d.raises = "click" THEN <<success, clicks>>
             ELSE IF d.raises = "after" THEN <<success, clicks + 1>>
             ELSE ConfirmLoop(Tail(ds), success \/ SuccessCheck(d.phrase, d.elem),
                              clicks + 1)

\* apply_jobs.py 665-700: the final decision.  Marking the page after a
\* detected success may raise, which the outer handler turns into False.
Decide(success, clicks, finalRaises) ==
    IF success
      THEN IF finalRaises
             THEN Verdict(FALSE, "Error", TRUE, TRUE, clicks)
             ELSE Verdict(TRUE, "Applied", TRUE, TRUE, clicks)
      ELSE Verdict(FALSE, "Unconfirmed", TRUE, FALSE, clicks)

\* apply_jobs.py 548-700: what follows the click.
AfterClick(obs) ==
    IF SuccessCheck(obs.phrase, obs.elem) THEN Decide(TRUE, 0, obs.finalRaises)
    ELSE IF obs.dialogsRaise THEN Decide(FALSE, 0, obs.finalRaises)
    ELSE LET r == ConfirmLoop(obs.dialogs, FALSE, 0)
         IN  Decide(r[1], r[2], obs.finalRaises)

\* apply_button = apply_buttons[0]                      (apply_jobs.py 532)
CheckAndApply(obs) ==
    IF obs.raisesEarly THEN Verdict(FALSE, "Error", FALSE, FALSE, 0)
    ELSE IF CompanySiteButtons(obs.elements) # <<>>
      THEN Verdict(FALSE, "SkippedExternalSite", FALSE, FALSE, 0)
    ELSE IF ApplyButtons(obs.elements) = <<>>
      THEN Verdict(FALSE, "NoApplyControl", FALSE, FALSE, 0)
    ELSE IF obs.clickRaises THEN Verdict(FALSE, "Error", FALSE, FALSE, 0)
    ELSE [AfterClick(obs) EXCEPT
            !.company = MentionsCompany(ApplyButtons(obs.elements)[1])]

\* What process_job_listings can learn of one evaluation.  seen is whether
\* the listing evaluated is one that this run of apply_for_jobs has counted
\* already; the code keeps no record of the listings it counted, and seen is
\* entered by the row (P_Row).
EvalSummary(v) ==
    [result |-> v.result, tag |-> v.tag, clicked |-> v.clicked, success |-> v.success,
     company |-> v.company, seen |-> FALSE]
NoEval ==
    [result |-> FALSE, tag |-> "None", clicked |-> FALSE, success |-> FALSE,
     company |-> FALSE, seen |-> FALSE]
EvalOutcomes == {EvalSummary(CheckAndApply(o)) : o \in Observations}

\* ==================================================== process_job_listings
\* apply_jobs.py 325-484.  frames is the call stack of process_job_listings:
\* one record per active call with its quota q (max_applications) and its
\* applied_count.  processed, pending, lastEval and mainWindow belong to the
\* top call; a caller that recursed reads none of its own any more.
\* pending is processed_jobs < len(job_listings): a row of the fetched page is
\* still unexamined.  The page's length is the environment's, and the code
\* learns it row by row (359) and from this comparison (464) only, so
\* whether a further row exists is chosen when the row before it is done.
Top == frames[Len(frames)]
TopApplied == IF frames = <<>> THEN 0 ELSE Top.applied
TopQuota == IF frames = <<>> THEN 0 ELSE Top.q

\* MaxJobsToProcess with the ceiling off by one.
MaxJobsToProcess_OffByOne(q) == q * ProcessFactor + 1

\* max_jobs_to_process = max_applications * 5     (apply_jobs.py 331)
MaxJobsToProcess(q) == q * ProcessFactor

\* The windows of the session: the listing window ("main"), the detail tab of
\* the row being processed ("cur"), detail tabs of earlier rows that are still
\* open (leaked of them; focus "detail" is on one of them), and "lost" when
\* the window that had the focus was closed.
RowPre == {"ok", "notitle", "raise", "nolink"}
RowDefault ==
    [pre |-> "ok", open |-> "tab", switch |-> "ok", ev |-> NoEval,
     close |-> "ok", back |-> "ok", restore |-> "ok"]
Outcome2 == {"ok", "raise"}

RowScenarios ==
    {[RowDefault EXCEPT !.pre = "notitle"], [RowDefault EXCEPT !.pre = "nolink"]}
    \cup {[RowDefault EXCEPT !.pre = "raise", !.restore = r] : r \in Outcome2}
    \cup {[RowDefault EXCEPT !.open = "raise", !.restore = r] : r \in Outcome2}
    \cup {[RowDefault EXCEPT !.open = o, !.switch = "raise", !.restore = r] :
            o \in {"tab", "none"}, r \in Outcome2}
    \cup {[RowDefault EXCEPT !.open = o, !.ev = e, !.close = "raise", !.restore = r] :
            o \in {"tab", "none"}, e \in EvalOutcomes, r \in Outcome2}
    \cup {[RowDefault EXCEPT !.open = o, !.ev = e] :
            o \in {"tab", "none"}, e \in EvalOutcomes}
    \cup {[RowDefault EXCEPT !.open = o, !.ev = e, !.back = "raise", !.restore = r] :
            o \in {"tab", "none"}, e \in EvalOutcomes, r \in Outcome2}

\* apply_jobs.py 454-458: the handler's guarded switch back to main_window.
\* main_window is unbound when the row failed before line 416 in a call that
\* never got that far; the switch fails when the listing window is gone.
Restore(st, sc) ==
    IF st.mw = "main" /\ st.mainOpen /\ sc.restore = "ok"
      THEN [st EXCEPT !.focus = "main"]
      ELSE st

\* windows[-1] after window.open (apply_jobs.py 430-431): the new tab when one
\* was opened, else the last handle there is.
LastHandle(st) ==
    IF st.cur THEN "cur" ELSE IF st.leaked > 0 THEN "detail" ELSE "main"

\* driver.close() (apply_jobs.py 443) closes the window that has the focus.
AfterClose(st) ==
    CASE st.focus = "cur" -> [st EXCEPT !.cur = FALSE, !.focus = "lost"]
      [] st.focus = "detail" -> [st EXCEPT !.leaked = @ - 1, !.focus = "lost"]
      [] st.focus = "main" -> [st EXCEPT !.mainOpen = FALSE, !.focus = "lost"]
      [] OTHER -> st

\* apply_jobs.py 388-460: the body of one loop iteration.  A row's elements
\* belong to the listing window: with the focus elsewhere the first lookup on
\* the row raises.  The handler (450-460) only switches back: a detail tab
\* that is open when an exception is raised stays open.
RowBody(st, sc) ==
    IF st.focus # "main" \/ sc.pre = "raise" THEN Restore(st, sc)
    ELSE IF sc.pre = "notitle" THEN st
    ELSE LET s1 == [st EXCEPT !.mw = "main"]
         IN  IF sc.pre = "nolink" THEN s1
             ELSE IF sc.open = "raise" THEN Restore(s1, sc)
             ELSE LET s2 == [s1 EXCEPT !.cur = (sc.open = "tab")]
                  IN  IF sc.switch = "raise" THEN Restore(s2, sc)
                      ELSE LET s3 == [s2 EXCEPT !.focus = LastHandle(s2), !.ev = sc.ev]
                           IN  IF sc.close = "raise" THEN Restore(s3, sc)
                               ELSE LET s4 == AfterClose(s3)
                                    IN  IF ~s4.mainOpen \/ sc.back = "raise"
                                          THEN Restore(s4, sc)
                                          ELSE [s4 EXCEPT !.focus = "main"]

\* The row is over: a detail tab it left open is an earlier row's tab now.
Settle(st) ==
    IF st.cur
      THEN [st EXCEPT !.cur = FALSE, !.leaked = @ + 1,
                      !.focus = IF @ = "cur" THEN "detail" ELSE @]
      ELSE st

RowEffect(sc) ==
    Settle(RowBody([focus |-> focus, mainOpen |-> mainOpen, leaked |-> leaked,
                    mw |-> mainWindow, cur |-> FALSE, ev |-> NoEval], sc))

\* CountRow counting every listing whose apply control was clicked.
CountRow_OnClick(count, ev) == IF ev.clicked THEN count + 1 ELSE count

\* apply_jobs.py 438-440: the count after the row's evaluation.
CountRow(count, ev) == IF ev.result THEN count + 1 ELSE count

\* A call process_job_listings(driver, q): a fresh frame (apply_jobs.py 329-331).
CallProcess(q) ==
    /\ frames' = Append(frames, [q |-> q, applied |-> 0])
    /\ ppc' = "p_find"
    /\ pending' = FALSE
    /\ processed' = 0
    /\ lastEval' = NoEval
    /\ mainWindow' = "unset"

otherThanListing == <<call, creds, target, shareLimit, jpc, sessions, quits,
                      loginRes, lpc, lcaller, attempt, submits, failed, navs, url, lresult,
                      rotateVars, apc, applied, searches, searchVars,
                      spc, shared, feed, sidx, shareClicks, setClicks, rowEvent>>

\* apply_jobs.py 333-356: find the rows.  No rows, or an exception while
\* looking for them, ends the call with the count 0.
P_Find ==
    /\ ppc = "p_find"
    /\ \/ /\ ppc' = "p_ret"
          /\ UNCHANGED pending
       \/ /\ focus = "main" /\ mainOpen
          /\ MaxRows >= 1
          /\ pending' = TRUE
          /\ ppc' = "p_loop"
    /\ UNCHANGED <<frames, processed, lastEval, browserVars, earlyAccess, sideRun, pageStep>>
    /\ UNCHANGED otherThanListing

\* NextProcessed with the loop staying at the same row.
NextProcessed_Stuck(n) == n

\* apply_jobs.py 358, 386: the for loop moves on to the next row, and
\* processed_jobs counts it.
NextProcessed(n) == n + 1

\* apply_jobs.py 359-386: the head of the for loop, run once per row that is
\* still to come.
P_Loop ==
    /\ ppc = "p_loop"
    /\ lastEval' = NoEval
    /\ IF pending
         THEN IF Top.applied >= Top.q
                THEN ppc' = "p_page" /\ UNCHANGED <<processed, earlyAccess>>
                ELSE IF processed >= MaxJobsToProcess(Top.q)
                       THEN /\ \E e \in BOOLEAN : earlyAccess' = e
                            /\ ppc' = IF earlyAccess' THEN "p_share" ELSE "p_page"
                            /\ UNCHANGED processed
                       ELSE /\ processed' = NextProcessed(processed)
                            /\ ppc' = "p_row"
                            /\ UNCHANGED earlyAccess
         ELSE \* the rows are used up: the tests at 360 and 364 are not made
              \* again, and the flag, whatever it is, is not read
              /\ ppc' = "p_page"
              /\ IF Top.applied < Top.q /\ processed >= MaxJobsToProcess(Top.q)
                   THEN \E e \in BOOLEAN : earlyAccess' = e
                   ELSE UNCHANGED earlyAccess
              /\ UNCHANGED processed
    /\ UNCHANGED <<frames, pending, browserVars, sideRun, pageStep>>
    /\ UNCHANGED otherThanListing

\* The listings this run of apply_for_jobs has counted so far: the count of
\* the passes that returned and the counts of the calls in progress.
RECURSIVE SumApplied(_)
SumApplied(fs) == IF fs = <<>> THEN 0 ELSE Head(fs).applied + SumApplied(Tail(fs))
CountedSoFar == applied + SumApplied(frames)

\* apply_jobs.py 388-460: one row.  The row may show a listing that was
\* counted before in this run (the results of a fallback search, or of the
\* next page, are not compared with what was processed): the page of such a
\* listing shows You have already applied, a phrase of success_patterns.
P_Row ==
    /\ ppc = "p_row"
    /\ \E sc \in RowScenarios :
         LET st == RowEffect(sc)
         IN  /\ st.leaked <= MaxLeaked
             /\ focus' = st.focus
             /\ mainOpen' = st.mainOpen
             /\ leaked' = st.leaked
             /\ mainWindow' = st.mw
             /\ \E seen \in BOOLEAN :
                  /\ seen => (st.ev.result /\ CountedSoFar >= 1)
                  /\ lastEval' = [st.ev EXCEPT !.seen = seen]
             /\ frames' = [frames EXCEPT ![Len(frames)].applied = CountRow(@, st.ev)]
    /\ \E more \in BOOLEAN :
         /\ more => processed < MaxRows
         /\ pending' = more
    /\ ppc' = "p_loop"
    /\ UNCHANGED <<processed, earlyAccess, sideRun, pageStep>>
    /\ UNCHANGED otherThanListing

\* RemainingQuota with the whole quota handed on to the next page.
RemainingQuota_Full(q, count) == q

\* The quota a next-page call is given (apply_jobs.py 475).
RemainingQuota(q, count) == q - count

\* Paginate without the test of the quota.
Paginate_Unmet(count, q, more) == more

\* if applied_count < max_applications and processed_jobs < len(job_listings)
\*                                                    (apply_jobs.py 464)
Paginate(count, q, more) == count < q /\ more

\* apply_jobs.py 462-478: pagination.  Looking for the control or clicking it
\* may raise, and there may be no control: the count stays as it is.  The
\* flag read at 366 is not used from here on.
P_Page ==
    /\ ppc = "p_page"
    /\ sideRun' = "none"
    /\ IF Paginate(Top.applied, Top.q, pending)
         THEN \/ \* no control (469), or looking for it or clicking it raised (477)
                 /\ pageStep' \in {"nocontrol", "raised"}
                 /\ ppc' = "p_ret"
                 /\ UNCHANGED <<frames, pending, processed, lastEval, mainWindow>>
              \/ /\ Len(frames) < MaxPages
                 /\ pageStep' = "next"
                 /\ CallProcess(RemainingQuota(Top.q, Top.applied))
         ELSE /\ pageStep' = "skipped"
              /\ ppc' = "p_ret"
              /\ UNCHANGED <<frames, pending, processed, lastEval, mainWindow>>
    /\ earlyAccess' = FALSE
    /\ UNCHANGED <<focus, mainOpen, leaked>>
    /\ UNCHANGED otherThanListing

\* apply_jobs.py 475-476, 484: a next-page call returns to the call that made
\* it, which adds the count and returns in turn.
P_Return ==
    /\ ppc = "p_ret"
    /\ Len(frames) > 1
    /\ frames' = [SubSeq(frames, 1, Len(frames) - 1)
                    EXCEPT ![Len(frames) - 1].applied = @ + Top.applied]
    /\ pending' = FALSE
    /\ processed' = 0
    /\ mainWindow' = "unset"
    /\ pageStep' = "none"
    /\ UNCHANGED <<ppc, lastEval, focus, mainOpen, leaked, earlyAccess, sideRun>>
    /\ UNCHANGED otherThanListing

\* ========================================================= share_interest
\* share_interest.py 18-100, run as a subprocess by process_job_listings
\* (apply_jobs.py 364-381).  feed is the number of rows fetched, sidx the
\* position of the for loop in them.
otherThanShare == <<call, creds, target, earlyAccess, jpc, rotateVars, apc, applied, searches,
                    searchVars, frames, pending, processed, lastEval, focus, mainOpen, leaked,
                    mainWindow>>

\* apply_jobs.py 383-384: what follows the run of the script, however it
\* went: break, which leads to the pagination test at 464.
AfterSideRun_Return(outcome) == "p_ret"
AfterSideRun(outcome) == "p_page"

\* apply_jobs.py 369-381: subprocess.run; a failure to start it is logged.
P_Share ==
    /\ ppc = "p_share"
    /\ spc = "s_idle"
    /\ \/ /\ ppc' = AfterSideRun("raised")
          /\ sideRun' = "raised"
          /\ UNCHANGED <<spc, pageStep>>
       \/ /\ spc' = "s_start"
          /\ UNCHANGED <<ppc, sideRun, pageStep>>
    /\ UNCHANGED <<shared, feed, sidx, shareClicks, setClicks, rowEvent, shareLimit, sessions, quits,
                   loginRes, loginVars>>
    /\ UNCHANGED otherThanShare

\* share_interest.py 25-32: read the limit, init_driver(), call login.
ShareBegin(limits) ==
    /\ \E l \in limits : shareLimit' = l
    /\ sessions' = sessions \cup {"share"}
    /\ CallLogin("share")
    /\ spc' = "s_login"
    /\ UNCHANGED <<shared, feed, sidx, shareClicks, setClicks, rowEvent, quits, loginRes, ppc, sideRun, pageStep>>
    /\ UNCHANGED otherThanShare

\* The script run by process_job_listings.
S_Start ==
    /\ spc = "s_start"
    /\ ShareBegin(0..MaxShareLimit)

\* share_interest.py 102-103: the script run on its own.
S_Main ==
    /\ spc = "s_main"
    /\ ShareBegin(0..MaxLimit)

\* share_interest.py 32-35, 95-97: failure returns, an exception is handled;
\* both go to the finally block.
S_AfterLogin ==
    /\ spc = "s_login"
    /\ lpc = "l_ret"
    /\ loginRes' = [loginRes EXCEPT !["share"] = lresult]
    /\ spc' = IF lresult = "true" THEN "s_nav" ELSE "s_quit"
    /\ EndLogin
    /\ UNCHANGED <<shared, feed, sidx, shareClicks, setClicks, rowEvent, shareLimit, sessions, quits,
                   ppc, sideRun, pageStep>>
    /\ UNCHANGED otherThanShare

\* share_interest.py 38-41: open the feed.
S_Navigate ==
    /\ spc = "s_nav"
    /\ \/ spc' = "s_quit"
       \/ spc' = "s_while"
    /\ shared' = 0
    /\ UNCHANGED <<feed, sidx, shareClicks, setClicks, rowEvent, shareLimit, sessions, quits, loginRes,
                   loginVars, ppc, sideRun, pageStep>>
    /\ UNCHANGED otherThanShare

\* ShareMore that lets the count pass the limit.
ShareMore_Inclusive(count, limit) == count <= limit

\* shared_count < early_access_limit        (share_interest.py 42, 51)
ShareMore(count, limit) == count < limit

\* share_interest.py 42: the while test.
S_While ==
    /\ spc = "s_while"
    /\ spc' = IF ShareMore(shared, shareLimit) THEN "s_fetch" ELSE "s_quit"
    /\ UNCHANGED <<shared, feed, sidx, shareClicks, setClicks, rowEvent, shareLimit, sessions, quits, loginRes,
                   loginVars, ppc, sideRun, pageStep>>
    /\ UNCHANGED otherThanShare

\* share_interest.py 43-48, 88-91: fetch the rows; no rows, or an exception,
\* ends the while loop.
S_Fetch ==
    /\ spc = "s_fetch"
    /\ \/ /\ spc' = "s_quit"
          /\ feed' = 0
          /\ sidx' = 0
       \/ /\ \E n \in 1..MaxFeed : feed' = n
          /\ sidx' = 0
          /\ spc' = "s_row"
    /\ setClicks' = 0
    /\ rowEvent' = "none"
    /\ UNCHANGED <<shared, shareClicks, shareLimit, sessions, quits, loginRes, loginVars,
                   ppc, sideRun, pageStep>>
    /\ UNCHANGED otherThanShare

\* What a row of the feed does (share_interest.py 54-86).  skip: the row has
\* no unshared control, or scrolling or clicking raised (83-86); stale: a
\* StaleElementReferenceException before the click returned (80-82); clicked:
\* the click returned and the feed was opened again (61-79); clickedRaised:
\* the click returned, then the wait or the navigation raised (83-86).
RowEvents == {"skip", "stale", "clicked", "clickedRaised"}

\* The click returned: shared_count += 1         (share_interest.py 61-63)
Clicked(event) == event \in {"clicked", "clickedRaised"}

\* AfterRowException that goes to the next row after every exception.
AfterRowException_Continue(stale) == "continue"

\* share_interest.py 80-86: break after a stale element, continue after any
\* other exception.
AfterRowException(stale) == IF stale THEN "break" ELSE "continue"

\* How the for loop goes on after the row (share_interest.py 79-86).
AfterRow(event) ==
    IF event = "clicked" THEN "break" ELSE AfterRowException(event = "stale")

\* share_interest.py 50-86: one step of the for loop over the fetched rows.
S_Row ==
    /\ spc = "s_row"
    /\ IF sidx >= feed \/ ~ShareMore(shared, shareLimit)
         THEN \* the rows are used up, or the break at 51-52
              /\ spc' = "s_while"
              /\ UNCHANGED <<shared, sidx, shareClicks, setClicks, rowEvent>>
         ELSE \E event \in RowEvents :
                /\ rowEvent' = event
                /\ shared' = IF Clicked(event) THEN shared + 1 ELSE shared
                /\ shareClicks' = IF Clicked(event) THEN shareClicks + 1 ELSE shareClicks
                /\ setClicks' = IF Clicked(event) THEN setClicks + 1 ELSE setClicks
                /\ IF AfterRow(event) = "break"
                     THEN spc' = "s_while" /\ UNCHANGED sidx
                     ELSE sidx' = sidx + 1 /\ UNCHANGED spc
    /\ UNCHANGED <<feed, shareLimit, sessions, quits, loginRes, loginVars, ppc, sideRun, pageStep>>
    /\ UNCHANGED otherThanShare

\* share_interest.py 98-100: driver.quit().
S_Quit ==
    /\ spc = "s_quit"
    /\ sessions' = sessions \ {"share"}
    /\ quits' = [quits EXCEPT !["share"] = @ + 1]
    /\ spc' = "s_done"
    /\ rowEvent' = "none"
    /\ UNCHANGED <<shared, feed, sidx, shareClicks, setClicks, shareLimit, loginRes, loginVars,
                   ppc, sideRun, pageStep>>
    /\ UNCHANGED otherThanShare

\* apply_jobs.py 377-384: the subprocess has ended; on to pagination.
P_ShareDone ==
    /\ ppc = "p_share"
    /\ spc = "s_done"
    /\ spc' = "s_idle"
    /\ ppc' = AfterSideRun("ended")
    /\ sideRun' = IF loginRes["share"] = "true" THEN "ended" ELSE "failed"
    /\ shared' = 0
    /\ feed' = 0
    /\ sidx' = 0
    /\ shareClicks' = 0
    /\ setClicks' = 0
    /\ rowEvent' = "none"
    /\ shareLimit' = 0
    /\ quits' = [quits EXCEPT !["share"] = 0]
    /\ loginRes' = [loginRes EXCEPT !["share"] = "none"]
    /\ UNCHANGED <<sessions, loginVars, pageStep>>
    /\ UNCHANGED otherThanShare

\* ========================================================= apply_for_jobs
\* apply_jobs.py 20-109.  searches counts the calls of search_for_jobs made
\* so far (search_attempts once the first listing pass is over).
otherThanApply == <<call, creds, target, earlyAccess, sideRun, pageStep, shareLimit, jpc, rotateVars,
                    spc, shared, feed, sidx, shareClicks, setClicks, rowEvent>>

\* random.choice(seq): any element; an empty sequence has none to give.
Choices(seq) == {seq[i] : i \in 1..Len(seq)}

\* No title or location chosen yet.
Unselected == "unselected"

\* What a call of search_for_jobs met and asked for.  entry is how the search
\* form was reached (118-148), fresh and sort what became of the two filter
\* steps, freshTarget and sortTarget the option each step looked for.
NoSearch ==
    [called |-> FALSE, fallback |-> FALSE, title |-> Unselected, location |-> Unselected,
     entry |-> "none", fresh |-> "none", freshTarget |-> "none",
     sort |-> "none", sortTarget |-> "none"]

\* apply_jobs.py 37-46: applied_count = 0, init_driver(), call login.
A_Start ==
    /\ apc = "a_start"
    /\ applied' = 0
    /\ searches' = 0
    /\ sessions' = sessions \cup {"apply"}
    /\ focus' = "main"
    /\ mainOpen' = TRUE
    /\ leaked' = 0
    /\ CallLogin("apply")
    /\ apc' = "a_login"
    /\ UNCHANGED <<quits, loginRes, listingVars, mainWindow, searchVars>>
    /\ UNCHANGED otherThanApply

\* What apply_for_jobs does with login's result (apply_jobs.py 46-49): a
\* failure returns 0 through the finally block; an exception goes through the
\* handler at 95-97 to the same block.
ApplyAfterLogin(r) == IF r = "true" THEN "a_nav" ELSE "a_finally"

A_AfterLogin ==
    /\ apc = "a_login"
    /\ lpc = "l_ret"
    /\ loginRes' = [loginRes EXCEPT !["apply"] = lresult]
    /\ apc' = ApplyAfterLogin(lresult)
    /\ EndLogin
    /\ UNCHANGED <<applied, searches, sessions, quits, listingVars, browserVars, searchVars>>
    /\ UNCHANGED otherThanApply

\* apply_jobs.py 52-61: open the profile page, choose title and location.
A_Navigate ==
    /\ apc = "a_nav"
    /\ \/ /\ apc' = "a_finally"
          /\ UNCHANGED <<selected_job_title, selected_location>>
       \/ /\ apc' = "a_search"
          /\ selected_job_title' \in Choices(job_titles)
          /\ selected_location' \in Choices(locations)
    /\ UNCHANGED <<applied, searches, sessions, quits, loginRes, loginVars,
                   listingVars, browserVars, job_titles, locations, lastSearch,
                   new_applications>>
    /\ UNCHANGED otherThanApply

\* SortTarget that asks for Relevance on every search.
SortTarget_Relevance(fallback) == "Relevance"

\* target_sort                                      (apply_jobs.py 307)
SortTarget(fallback) == IF fallback THEN "Date" ELSE "Relevance"

\* The freshness option looked for                  (apply_jobs.py 278)
FreshTarget == "Last 1 day"

\* What the page does to a search: the form is reached or neither it nor the
\* search page can be (entry); the freshness step selects the option, finds no
\* such option, or raises at its dropdown (fresh); the sort step selects the
\* option, finds no such option, raises before the options are read
\* ("raiseEarly", 291-303) or raises at the click (sort).
SearchPages ==
    [entry : {"ok", "aborted"}, fresh : {"selected", "missing", "raise"},
     sort : {"selected", "missing", "raiseEarly", "raise"}]

\* apply_jobs.py 111-323.  Every step has a handler of its own that goes on
\* to the next step; only the failure to reach the search form at all is
\* raised again (148) and ends the search in the outer handler (321-323).
SearchForJobs(title, location, fallback, page) ==
    IF page.entry = "aborted"
      THEN [NoSearch EXCEPT !.called = TRUE, !.fallback = fallback, !.title = title,
                            !.location = location, !.entry = "aborted",
                            !.fresh = "skipped", !.sort = "skipped"]
      ELSE [called |-> TRUE, fallback |-> fallback, title |-> title, location |-> location,
            entry |-> "ok",
            fresh |-> page.fresh,
            freshTarget |-> IF page.fresh = "raise" THEN "none" ELSE FreshTarget,
            sort |-> page.sort,
            sortTarget |-> IF page.sort = "raiseEarly" THEN "none" ELSE SortTarget(fallback)]

\* CountAfterSearch that starts again from 0 after a search that failed.
CountAfterSearch_Reset(count, search) == IF search.entry = "aborted" THEN 0 ELSE count

\* applied_count after search_for_jobs (apply_jobs.py 64, 84): the call is a
\* statement of its own and no handler of apply_for_jobs is entered.
CountAfterSearch(count, search) == count

\* apply_jobs.py 64, 75-84: search_for_jobs, which handles every exception
\* of its own (111-323) and returns nothing.
A_Search ==
    /\ apc = "a_search"
    /\ searches' = searches + 1
    /\ \E page \in SearchPages :
         lastSearch' = SearchForJobs(selected_job_title, selected_location,
                                     searches >= 1, page)
    /\ applied' = CountAfterSearch(applied, lastSearch')
    /\ apc' = "a_call"
    /\ UNCHANGED <<sessions, quits, loginRes, loginVars, listingVars, browserVars,
                   job_titles, locations, selected_job_title, selected_location,
                   new_applications>>
    /\ UNCHANGED otherThanApply

\* The quota of a listing pass (apply_jobs.py 67, 87).
PassQuota(first, t, count) == IF first THEN t ELSE t - count

\* apply_jobs.py 67, 87: call process_job_listings.
A_Process ==
    /\ apc = "a_call"
    /\ CallProcess(PassQuota(searches = 1, target, applied))
    /\ apc' = "a_process"
    /\ lastSearch' = [NoSearch EXCEPT !.title = lastSearch.title,
                                      !.location = lastSearch.location]
    /\ UNCHANGED <<applied, searches, sessions, quits, loginRes, loginVars,
                   focus, mainOpen, leaked,
                   job_titles, locations, selected_job_title, selected_location,
                   new_applications>>
    /\ UNCHANGED otherThanApply

\* AfterPass with the count of the fallback pass put in place of the sum.
AfterPass_Replace(first, count, r) == r

\* The count after a listing pass returned r (apply_jobs.py 67, 88).
AfterPass(first, count, r) == IF first THEN r ELSE count + r

\* apply_jobs.py 67, 87-88: the outermost call returns.
A_ProcessReturn ==
    /\ apc = "a_process"
    /\ ppc = "p_ret"
    /\ Len(frames) = 1
    /\ new_applications' = Top.applied
    /\ applied' = AfterPass(searches = 1, applied, Top.applied)
    /\ frames' = <<>>
    /\ ppc' = "p_none"
    /\ pending' = FALSE
    /\ processed' = 0
    /\ mainWindow' = "unset"
    /\ apc' = "a_while"
    /\ UNCHANGED <<searches, sessions, quits, loginRes, loginVars, lastEval,
                   focus, mainOpen, leaked, job_titles, locations, selected_job_title,
                   selected_location, lastSearch>>
    /\ pageStep' = "none"
    /\ UNCHANGED <<call, creds, target, earlyAccess, sideRun, shareLimit, jpc, rotateVars,
                   spc, shared, feed, sidx, shareClicks, setClicks, rowEvent>>

\* TryFallback with the attempt bound off by one.
TryFallback_OffByOne(count, t, n) == count < t /\ n <= max_search_attempts

\* The test of the fallback loop (apply_jobs.py 73).
TryFallback(count, t, n) == count < t /\ n < max_search_attempts

\* Resample that may choose the previous value again.
Resample_Any(list, previous) == Choices(list)

\* random.choice([x for x in list if x != previous] or list)
\*                                                  (apply_jobs.py 78-79)
Resample(list, previous) ==
    LET others == SelectSeq(list, LAMBDA x : x # previous)
    IN  Choices(IF others # <<>> THEN others ELSE list)

\* apply_jobs.py 73-82, 90-93: the loop test; in the loop, a new title and a
\* new location for the fallback search.
A_While ==
    /\ apc = "a_while"
    /\ IF TryFallback(applied, target, searches)
         THEN /\ apc' = "a_search"
              /\ selected_job_title' \in Resample(job_titles, selected_job_title)
              /\ selected_location' \in Resample(locations, selected_location)
         ELSE /\ apc' = "a_finally"
              /\ UNCHANGED <<selected_job_title, selected_location>>
    /\ new_applications' = 0
    /\ UNCHANGED <<applied, searches, sessions, quits, loginRes, loginVars,
                   listingVars, browserVars, job_titles, locations, lastSearch>>
    /\ UNCHANGED otherThanApply

\* apply_jobs.py 98-109: driver.quit(), return applied_count.
A_Finally ==
    /\ apc = "a_finally"
    /\ sessions' = sessions \ {"apply"}
    /\ quits' = [quits EXCEPT !["apply"] = @ + 1]
    /\ apc' = "a_done"
    /\ selected_job_title' = Unselected
    /\ selected_location' = Unselected
    /\ lastSearch' = NoSearch
    /\ UNCHANGED <<applied, searches, loginRes, loginVars, listingVars, browserVars,
                   job_titles, locations, new_applications>>
    /\ UNCHANGED otherThanApply

\* ======================================================== rotate_headline
\* rotate_headline.py 74-193.
otherThanRotate == <<call, creds, target, earlyAccess, sideRun, pageStep, shareLimit, jpc, applyVars, searchVars,
                     listingVars, browserVars, shareVars>>

\* ------------------------------------------------------ headline selection
\* rotate_headline.py 91-172.  The headline texts of headlines.json and the
\* texts the profile may show: "a" and "b" are contained in "a b".
HeadlineTexts == {<<"a">>, <<"b">>, <<"a", "b">>}
ProfileTexts == HeadlineTexts \cup {<<"c">>}
Pools == SeqsUpTo(HeadlineTexts, MaxPool)
NoData == [loaded |-> FALSE, pool |-> <<>>]
NoHeadline == [kind |-> "none", text |-> <<>>]

\* rotate_headline.py 119-122: the first pool headline contained in the text
\* that was read replaces that text.
CoreHeadline(pool, cur) ==
    LET hits == {i \in 1..Len(pool) : IsIn(pool[i], cur)}
    IN  IF hits = {} THEN cur ELSE pool[First(hits)]

\* [h for h in data if h["headline"] not in excluded]  (125, 152)
Different(pool, excluded) == SelectSeq(pool, LAMBDA h : h \notin excluded)

\* rotate_headline.py 117: is a different headline looked for?
KnowsCurrent(pool, cur) == Truthy(cur) /\ Len(pool) > 1

\* current_headline after 117-122.
CurrentAfter(pool, cur) ==
    IF KnowsCurrent(pool, cur) THEN Str(CoreHeadline(pool, cur.text)) ELSE cur

\* rotate_headline.py 117-133: the records random.choice draws entry from.
Candidates(pool, cur) ==
    IF KnowsCurrent(pool, cur)
      THEN LET d == Different(pool, {CoreHeadline(pool, cur.text)})
           IN  IF d # <<>> THEN d ELSE pool
      ELSE pool

HeadlineError == [kind |-> "error", text |-> <<>>]
HeadlineSkip == [kind |-> "skip", text |-> <<>>]
HeadlineUpdate(h) == [kind |-> "update", text |-> h]

\* rotate_headline.py 135-164, for the drawn headline h: `h in None` raises
\* TypeError (handler at 166); a headline contained in the current one is
\* replaced by another if there is one, else the update is skipped.
AfterPick(pool, cur, h) ==
    IF cur.none THEN {HeadlineError}
    ELSE IF IsIn(h, cur.text)
      THEN IF Len(pool) = 1 THEN {HeadlineSkip}
           ELSE LET d == Different(pool, {h, cur.text})
                IN  IF d # <<>> THEN {HeadlineUpdate(x) : x \in Choices(d)}
                    ELSE {HeadlineSkip}
    ELSE {HeadlineUpdate(h)}

\* rotate_headline.py 112-172: every outcome of the selection.  An empty pool
\* makes random.choice raise IndexError (handler at 166).
SelectHeadline(pool, cur) ==
    IF pool = <<>> THEN {HeadlineError}
    ELSE UNION {AfterPick(pool, CurrentAfter(pool, cur), h) :
                  h \in Choices(Candidates(pool, cur))}

\* ------------------------------------------------------- click_save_button
\* rotate_headline.py 364-426.
SaveStrategies == <<"direct", "javascript", "event", "form">>
\* Which strategies raise.  A strategy after the first one that did not raise
\* is not run, and is entered as not raising.
SaveRaises ==
    {r \in [1..Len(SaveStrategies) -> BOOLEAN] :
       \A i \in 1..(Len(SaveStrategies) - 1) : ~r[i] => ~r[i + 1]}

\* rotate_headline.py 373-410: a strategy is tried when every one before it
\* raised, and is recorded when it did not raise.
MethodsTried(raises) ==
    LET ok == {i \in 1..Len(SaveStrategies) : ~raises[i]}
    IN  IF ok = {} THEN <<>> ELSE <<SaveStrategies[First(ok)]>>

\* SaveResult that counts the native click only.
SaveResult_Direct(tried) == tried = <<"direct">>

\* return len(methods_tried) > 0                    (rotate_headline.py 426)
SaveResult(tried) == Len(tried) > 0

NoSave == [called |-> FALSE, raised |-> FALSE, raises |-> [i \in 1..Len(SaveStrategies) |-> FALSE],
           effect |-> FALSE, tried |-> <<>>, result |-> FALSE]

\* The scroll at 369 has no handler: when it raises, so does the function.
\* effect is whether the page took the save.
ClickSaveButton(scrollRaises, raises, effect) ==
    IF scrollRaises
      THEN [NoSave EXCEPT !.called = TRUE, !.raised = TRUE]
      ELSE [called |-> TRUE, raised |-> FALSE, raises |-> raises, effect |-> effect,
            tried |-> MethodsTried(raises), result |-> SaveResult(MethodsTried(raises))]

\* -------------------------------------------------- update_resume_headline
\* rotate_headline.py 428-603.  What the page does while the headline is
\* edited: edit is how the form is opened (434-476), field the lookup and
\* filling of the textarea (482-503), saveButton whether a save control is
\* found (505-524), renav the return to the profile and the first read
\* (532-549), verified whether one of the checks at 551-581 matches.
UpdateDefault ==
    [edit |-> "button", field |-> "ok", saveButton |-> TRUE, scrollRaises |-> FALSE,
     raises |-> [i \in 1..Len(SaveStrategies) |-> FALSE], effect |-> FALSE,
     renav |-> "ok", verified |-> FALSE]

UpdatePages ==
    {[UpdateDefault EXCEPT !.edit = e] : e \in {"none", "raise"}}
    \cup {[UpdateDefault EXCEPT !.edit = e, !.field = "raise"] : e \in {"button", "direct"}}
    \cup {[UpdateDefault EXCEPT !.saveButton = FALSE]}
    \cup {[UpdateDefault EXCEPT !.scrollRaises = TRUE]}
    \cup {[UpdateDefault EXCEPT !.raises = r, !.effect = x, !.renav = "raise"] :
            r \in SaveRaises, x \in BOOLEAN}
    \cup {[UpdateDefault EXCEPT !.raises = r, !.effect = x, !.verified = v] :
            r \in SaveRaises, x \in BOOLEAN, v \in BOOLEAN}

NoUpdate == [called |-> FALSE, result |-> FALSE, path |-> "none", save |-> NoSave]

\* headline_was_updated = True                      (rotate_headline.py 529):
\* set after click_save_button whatever it returned.
HeadlineWasUpdated(clickResult) == TRUE

\* Every exception is handled inside (473, 596, 600) and gives False.
UpdateResumeHeadline(pg) ==
    IF pg.edit \in {"none", "raise"}
      THEN [NoUpdate EXCEPT !.called = TRUE, !.path = "edit"]
    ELSE IF pg.field = "raise"
      THEN [NoUpdate EXCEPT !.called = TRUE, !.path = "field"]
    ELSE IF ~pg.saveButton
      THEN [NoUpdate EXCEPT !.called = TRUE, !.path = "nosave"]
    ELSE LET c == ClickSaveButton(pg.scrollRaises, pg.raises, pg.effect)
         IN  IF c.raised \/ pg.renav = "raise"
               THEN [called |-> TRUE, result |-> FALSE, path |-> "raised", save |-> c]
             ELSE IF pg.verified
               THEN [called |-> TRUE, result |-> TRUE, path |-> "verified", save |-> c]
             ELSE IF HeadlineWasUpdated(c.result)
               THEN [called |-> TRUE, result |-> TRUE, path |-> "assumed", save |-> c]
             ELSE [called |-> TRUE, result |-> FALSE, path |-> "unverified", save |-> c]

\* -------------------------------------------------------- find_resume_file
\* rotate_headline.py 326-362.  File names and keywords are sequences of
\* characters.
FileNames ==
    {<<"n", "o", "t", "e", "s", ".", "p", "d", "f">>,
     <<"J", "o", "h", "n", "_", "R", "e", "s", "u", "m", "e", ".", "p", "d", "f">>,
     <<"c", "o", "v", "e", "r", ".", "d", "o", "c", "x">>,
     <<"C", "V", ".", "P", "D", "F">>,
     <<"r", "e", "s", "u", "m", "e", ".", "d", "o", "c", "x">>}
Listings == SeqsUpTo(FileNames, MaxFiles)
NoFile == <<>>

\* resume_keywords                                  (rotate_headline.py 345)
resume_keywords ==
    <<<<"r", "e", "s", "u", "m", "e">>,
      <<"c", "v">>,
      <<"c", "u", "r", "r", "i", "c", "u", "l", "u", "m">>,
      <<"v", "i", "t", "a", "e">>,
      <<"b", "a", "r", "k", "a", "t">>>>

\* str.lower(), character by character.
LowerChar(c) ==
    CASE c = "A" -> "a"
      [] c = "C" -> "c"
      [] c = "D" -> "d"
      [] c = "F" -> "f"
      [] c = "H" -> "h"
      [] c = "J" -> "j"
      [] c = "P" -> "p"
      [] c = "R" -> "r"
      [] c = "S" -> "s"
      [] c = "V" -> "v"
      [] c = "Y" -> "y"
      [] OTHER -> c
Lower(name) == [i \in 1..Len(name) |-> LowerChar(name[i])]

\* s.endswith(suffix)
EndsWith(name, suffix) ==
    /\ Len(name) >= Len(suffix)
    /\ SubSeq(name, Len(name) - Len(suffix) + 1, Len(name)) = suffix

\* [f for f in files if f.lower().endswith('.pdf')] (rotate_headline.py 338)
PdfFiles(files) == SelectSeq(files, LAMBDA f : EndsWith(Lower(f), <<".", "p", "d", "f">>))

\* KeywordMatch that takes the first PDF holding any keyword.
KeywordMatch_ByFile(keywords, pdfs) ==
    LET hits == SelectSeq(pdfs, LAMBDA f :
                    \E k \in 1..Len(keywords) : IsIn(Lower(keywords[k]), Lower(f)))
    IN  IF hits # <<>> THEN Head(hits) ELSE NoFile

\* rotate_headline.py 346-351: for keyword ...: for pdf ...: the first hit.
RECURSIVE KeywordMatch(_, _)
KeywordMatch(keywords, pdfs) ==
    IF keywords = <<>> THEN NoFile
    ELSE LET hits == SelectSeq(pdfs, LAMBDA f : IsIn(Lower(Head(keywords)), Lower(f)))
         IN  IF hits # <<>> THEN Head(hits) ELSE KeywordMatch(Tail(keywords), pdfs)

\* The file's name stands for the path os.path.join(current_dir, name).
FindResumeFile(files) ==
    LET pdfs == PdfFiles(files)
    IN  IF pdfs = <<>> THEN NoFile
        ELSE IF KeywordMatch(resume_keywords, pdfs) # NoFile
          THEN KeywordMatch(resume_keywords, pdfs)
        ELSE pdfs[1]

\* ----------------------------------------------------------- upload_resume
\* rotate_headline.py 205-324.  nav is the check of the URL and the
\* navigation (211-214), input which of the three lookups finds the file
\* input (220-241), files the directory, submit what the submission does
\* (263 the script, 270 send_keys), indicator whether a success indicator
\* shows (277-308).
UploadDefault ==
    [nav |-> "ok", input |-> "id", files |-> <<>>, submit |-> "ok", indicator |-> FALSE]

\* The working directories of a run: empty, without a PDF, with one PDF,
\* and with two PDFs of which the second is named after the resume.
UploadListings ==
    {<<>>,
     <<<<"c", "o", "v", "e", "r", ".", "d", "o", "c", "x">>>>,
     <<<<"n", "o", "t", "e", "s", ".", "p", "d", "f">>>>,
     <<<<"n", "o", "t", "e", "s", ".", "p", "d", "f">>,
       <<"J", "o", "h", "n", "_", "R", "e", "s", "u", "m", "e", ".", "p", "d", "f">>,
       <<"c", "o", "v", "e", "r", ".", "d", "o", "c", "x">>>>}

UploadPages ==
    {[UploadDefault EXCEPT !.nav = "raise"], [UploadDefault EXCEPT !.input = "none"]}
    \cup {[UploadDefault EXCEPT !.input = i, !.files = f, !.submit = sb] :
            i \in {"id", "css", "section"}, f \in UploadListings,
            sb \in {"scriptRaises", "sendRaises"}}
    \cup {[UploadDefault EXCEPT !.input = i, !.files = f, !.indicator = x] :
            i \in {"id", "css", "section"}, f \in UploadListings, x \in BOOLEAN}

NoUpload ==
    [called |-> FALSE, result |-> FALSE, inputFound |-> FALSE, files |-> <<>>,
     resume |-> NoFile, sends |-> 0, submitRaised |-> FALSE, indicator |-> FALSE]

\* UploadVerdict that wants a success indicator.
UploadVerdict_Strict(indicator) == indicator

\* rotate_headline.py 295-314: after send_keys returned, True on every path.
UploadVerdict(indicator) == TRUE

\* Every exception is handled inside (316, 321) and gives False.
UploadResume(pg) ==
    IF pg.nav = "raise" THEN [NoUpload EXCEPT !.called = TRUE]
    ELSE IF pg.input = "none" THEN [NoUpload EXCEPT !.called = TRUE]
    ELSE LET found == [NoUpload EXCEPT !.called = TRUE, !.inputFound = TRUE,
                                       !.files = pg.files,
                                       !.resume = FindResumeFile(pg.files)]
         IN  IF found.resume = NoFile THEN found
             ELSE IF pg.submit = "scriptRaises"
               THEN [found EXCEPT !.submitRaised = TRUE]
             ELSE IF pg.submit = "sendRaises"
               THEN [found EXCEPT !.sends = 1, !.submitRaised = TRUE]
             ELSE [found EXCEPT !.sends = 1, !.indicator = pg.indicator,
                                !.result = UploadVerdict(pg.indicator)]

\* rotate_headline.py 80-82: init_driver(), call login.
R_Start ==
    /\ rpc = "r_start"
    /\ sessions' = sessions \cup {"rotate"}
    /\ CallLogin("rotate")
    /\ rpc' = "r_login"
    /\ UNCHANGED <<quits, loginRes>>
    /\ UNCHANGED <<current_headline, data, headline, early, profile, upd, upl>>
    /\ UNCHANGED otherThanRotate

\* What rotate_headline does with login's result (rotate_headline.py 82-83):
\* the value is not looked at; only an exception leaves the try block.
RotateAfterLogin(r) == IF r = "raise" THEN "r_finally" ELSE "r_nav"

R_AfterLogin ==
    /\ rpc = "r_login"
    /\ lpc = "l_ret"
    /\ loginRes' = [loginRes EXCEPT !["rotate"] = lresult]
    /\ rpc' = RotateAfterLogin(lresult)
    /\ EndLogin
    /\ UNCHANGED <<sessions, quits>>
    /\ UNCHANGED <<current_headline, data, headline, early, profile, upd, upl>>
    /\ UNCHANGED otherThanRotate

\* rotate_headline.py 87-89: open the profile page.
R_Navigate ==
    /\ rpc = "r_nav"
    /\ \/ rpc' = "r_finally"
       \/ rpc' = "r_read"
    /\ UNCHANGED <<sessions, quits, loginRes, loginVars>>
    /\ UNCHANGED <<current_headline, data, headline, early, profile, upd, upl>>
    /\ UNCHANGED otherThanRotate

\* rotate_headline.py 91-109: read the headline the profile shows.  The
\* script returns the text or null; an exception leaves the initial "".
R_ReadHeadline ==
    /\ rpc = "r_read"
    /\ \E p \in ProfileTexts :
         /\ profile' = p
         /\ current_headline' \in {Str(p), NoneValue, EmptyStr}
    /\ rpc' = "r_headline"
    /\ UNCHANGED <<sessions, quits, loginRes, loginVars>>
    /\ UNCHANGED <<data, headline, early, upd, upl>>
    /\ UNCHANGED otherThanRotate

\* rotate_headline.py 111-172: load headlines.json and choose the headline.
\* A failure (166-172) quits the driver and returns; a skipped update goes to
\* upload_resume and returns after it (146-149, 161-164).
R_Headline ==
    /\ rpc = "r_headline"
    /\ \/ /\ data' = NoData
          /\ headline' = HeadlineError
          /\ UNCHANGED current_headline
       \/ \E pool \in Pools :
            /\ data' = [loaded |-> TRUE, pool |-> pool]
            /\ headline' \in SelectHeadline(pool, current_headline)
            /\ current_headline' = CurrentAfter(pool, current_headline)
    /\ early' = (headline'.kind # "update")
    /\ IF headline'.kind = "error"
         THEN /\ quits' = [quits EXCEPT !["rotate"] = @ + 1]
              /\ sessions' = sessions \ {"rotate"}
              /\ rpc' = "r_finally"
         ELSE /\ rpc' = IF headline'.kind = "update" THEN "r_update" ELSE "r_upload"
              /\ UNCHANGED <<quits, sessions>>
    /\ UNCHANGED <<loginRes, loginVars, profile, upd, upl>>
    /\ UNCHANGED otherThanRotate

\* rotate_headline.py 175-181: update_resume_headline(driver, headline); its
\* result is only logged.
R_Update ==
    /\ rpc = "r_update"
    /\ \E pg \in UpdatePages : upd' = UpdateResumeHeadline(pg)
    /\ rpc' = "r_upload"
    /\ current_headline' = EmptyStr
    /\ data' = NoData
    /\ headline' = NoHeadline
    /\ profile' = <<>>
    /\ UNCHANGED <<sessions, quits, loginRes, loginVars, early, upl>>
    /\ UNCHANGED otherThanRotate

\* rotate_headline.py 184 (and 146, 161 when the update was skipped):
\* upload_resume(driver); the early paths then quit the driver and return.
R_Upload ==
    /\ rpc = "r_upload"
    /\ \E pg \in UploadPages : upl' = UploadResume(pg)
    /\ IF early
         THEN /\ quits' = [quits EXCEPT !["rotate"] = @ + 1]
              /\ sessions' = sessions \ {"rotate"}
         ELSE UNCHANGED <<quits, sessions>>
    /\ rpc' = "r_finally"
    /\ current_headline' = EmptyStr
    /\ data' = NoData
    /\ headline' = NoHeadline
    /\ profile' = <<>>
    /\ upd' = NoUpdate
    /\ UNCHANGED <<loginRes, loginVars, early>>
    /\ UNCHANGED otherThanRotate

\* rotate_headline.py 189-193: driver.quit().
R_Finally ==
    /\ rpc = "r_finally"
    /\ sessions' = sessions \ {"rotate"}
    /\ quits' = [quits EXCEPT !["rotate"] = @ + 1]
    /\ rpc' = "r_done"
    /\ current_headline' = EmptyStr
    /\ data' = NoData
    /\ headline' = NoHeadline
    /\ profile' = <<>>
    /\ upd' = NoUpdate
    /\ upl' = NoUpload
    /\ early' = FALSE
    /\ UNCHANGED <<loginRes, loginVars>>
    /\ UNCHANGED otherThanRotate

\* ==================================================================== job
\* main.py 14-53: headline rotation if enabled, then job application if
\* enabled.
otherThanJob == <<call, creds, target, earlyAccess, sideRun, pageStep, shareLimit, sessions, loginVars,
                  applyVars, searchVars, listingVars, browserVars, shareVars>>

\* main.py 25-30.
J_Rotation ==
    /\ jpc = "j_start"
    /\ \/ /\ rpc' = "r_start"
          /\ jpc' = "j_rotate"
       \/ /\ jpc' = "j_mid"
          /\ UNCHANGED rpc
    /\ UNCHANGED <<quits, loginRes>>
    /\ UNCHANGED <<current_headline, data, headline, early, profile, upd, upl>>
    /\ UNCHANGED otherThanJob

\* main.py 27-28: rotate_headline returned.
J_AfterRotation ==
    /\ jpc = "j_rotate"
    /\ rpc = "r_done"
    /\ rpc' = "r_idle"
    /\ jpc' = "j_mid"
    /\ quits' = [quits EXCEPT !["rotate"] = 0]
    /\ loginRes' = [loginRes EXCEPT !["rotate"] = "none"]
    /\ UNCHANGED <<current_headline, data, headline, early, profile, upd, upl>>
    /\ UNCHANGED otherThanJob

\* main.py 33-38.
J_Application ==
    /\ jpc = "j_mid"
    /\ \/ /\ apc' = "a_start"
          /\ jpc' = "j_apply"
       \/ /\ jpc' = "j_done"
          /\ UNCHANGED apc
    /\ UNCHANGED <<call, creds, target, earlyAccess, sideRun, pageStep, shareLimit, sessions, quits, loginRes,
                   loginVars, rotateVars, applied, searches, searchVars, listingVars,
                   browserVars, shareVars>>

\* main.py 35-36: apply_for_jobs returned its count.
J_AfterApplication ==
    /\ jpc = "j_apply"
    /\ apc = "a_done"
    /\ jpc' = "j_done"
    /\ UNCHANGED <<call, creds, target, earlyAccess, sideRun, pageStep, shareLimit, sessions, quits, loginRes,
                   loginVars, rotateVars, applyVars, searchVars, listingVars, browserVars,
                   shareVars>>

\* ========================================================== specification
\* No function is being called on its own.
NoCall == [fn |-> "none", arg |-> <<>>, done |-> FALSE, res |-> <<>>]

\* The variables that are the same before job() runs and when the first
\* process_job_listings call of a run is made.
InitIdle ==
    /\ earlyAccess = FALSE
    /\ shareLimit = 0
    /\ quits = [t \in Tasks |-> 0]
    /\ lpc = "l_idle"
    /\ lcaller = "none"
    /\ attempt = 0
    /\ submits = 0
    /\ failed = 0
    /\ navs = 0
    /\ url = NoUrl
    /\ lresult = "none"
    /\ rpc = "r_idle"
    /\ current_headline = EmptyStr
    /\ data = NoData
    /\ headline = NoHeadline
    /\ early = FALSE
    /\ profile = <<>>
    /\ upd = NoUpdate
    /\ applied = 0
    /\ new_applications = 0
    /\ sideRun = "none"
    /\ pageStep = "none"
    /\ shareClicks = 0
    /\ setClicks = 0
    /\ rowEvent = "none"
    /\ pending = FALSE
    /\ processed = 0
    /\ lastEval = NoEval
    /\ focus = "main"
    /\ mainOpen = TRUE
    /\ leaked = 0
    /\ mainWindow = "unset"
    /\ shared = 0
    /\ feed = 0
    /\ sidx = 0

\* The state before job() runs, but for the configuration and the files.
InitRun ==
    /\ InitIdle
    /\ jpc = "j_start"
    /\ sessions = {}
    /\ loginRes = [t \in Tasks |-> "none"]
    /\ apc = "a_idle"
    /\ searches = 0
    /\ selected_job_title = Unselected
    /\ selected_location = Unselected
    /\ lastSearch = NoSearch
    /\ frames = <<>>
    /\ ppc = "p_none"

\* A run with one job title and one location configured.
Init ==
    /\ InitRun
    /\ call = NoCall
    /\ spc = "s_idle"
    /\ creds \in [email : BOOLEAN, password : BOOLEAN]
    /\ target \in 0..MaxTarget
    /\ job_titles = <<"A">>
    /\ locations = <<"A">>
    /\ upl = NoUpload

\* JOB_TITLES and JOB_LOCATIONS after split(",") (apply_jobs.py 29-33): one
\* value, two different values, the same value twice.
SearchLists == {<<"A">>, <<"A", "B">>, <<"A", "A">>}

\* Runs that apply for one job, with the lists of titles and of locations
\* drawn from SearchLists.
InitSearch ==
    /\ InitRun
    /\ call = NoCall
    /\ spc = "s_idle"
    /\ creds = [email |-> TRUE, password |-> TRUE]
    /\ target = 1
    /\ job_titles \in SearchLists
    /\ locations \in SearchLists
    /\ upl = NoUpload

\* A working directory for find_resume_file.
InitFiles ==
    /\ InitRun
    /\ call = NoCall
    /\ spc = "s_idle"
    /\ creds = [email |-> TRUE, password |-> TRUE]
    /\ target = 0
    /\ job_titles = <<"A">>
    /\ locations = <<"A">>
    /\ upl \in {[NoUpload EXCEPT !.files = f] : f \in Listings}

\* share_interest.py run on its own (102-103).
InitShare ==
    /\ InitRun
    /\ call = NoCall
    /\ spc = "s_main"
    /\ creds \in [email : BOOLEAN, password : BOOLEAN]
    /\ target = 0
    /\ job_titles = <<"A">>
    /\ locations = <<"A">>
    /\ upl = NoUpload

\* find_resume_file() on the working directory (rotate_headline.py 326-362).
F_FindResumeFile ==
    /\ ~upl.called
    /\ upl' = [upl EXCEPT !.called = TRUE, !.resume = FindResumeFile(upl.files)]
    /\ UNCHANGED <<rpc, current_headline, data, headline, early, profile, upd>>
    /\ UNCHANGED <<sessions, quits, loginRes, loginVars>>
    /\ UNCHANGED otherThanRotate

Login ==
    \/ LoginCheckCreds
    \/ LoginNavigate
    \/ LoginWaitTitle
    \/ LoginLoop
    \/ LoginTry
    \/ LoginSubmit

Next ==
    \/ J_Rotation
    \/ J_AfterRotation
    \/ J_Application
    \/ J_AfterApplication
    \/ Login
    \/ R_Start
    \/ R_AfterLogin
    \/ R_Navigate
    \/ R_ReadHeadline
    \/ R_Headline
    \/ R_Update
    \/ R_Upload
    \/ R_Finally
    \/ A_Start
    \/ A_AfterLogin
    \/ A_Navigate
    \/ A_Search
    \/ A_Process
    \/ A_ProcessReturn
    \/ A_While
    \/ A_Finally
    \/ P_Find
    \/ P_Loop
    \/ P_Row
    \/ P_Page
    \/ P_Return
    \/ P_Share
    \/ P_ShareDone
    \/ S_Start
    \/ S_AfterLogin
    \/ S_Navigate
    \/ S_While
    \/ S_Fetch
    \/ S_Row
    \/ S_Quit

Spec == Init /\ [][Next]_vars

\* The runs of job() over the lists of titles and locations.
SpecSearch == InitSearch /\ [][Next]_vars

\* share_interest.py run on its own.
NextShare ==
    \/ S_Main
    \/ Login
    \/ S_AfterLogin
    \/ S_Navigate
    \/ S_While
    \/ S_Fetch
    \/ S_Row
    \/ S_Quit
SpecShare == InitShare /\ [][NextShare]_vars

\* find_resume_file over the working directories.
NextFiles == F_FindResumeFile
SpecFiles == InitFiles /\ [][NextFiles]_vars

\* ============================================= functions called on their own
\* A function whose result depends on its argument only is called once with
\* an argument drawn from a bounded set; call holds the argument and the
\* result.  The rest of the program is idle.
otherThanCall == <<jpc, creds, target, earlyAccess, shareLimit, sessions, quits, loginRes,
                   loginVars, rotateVars, applyVars, searchVars, listingVars, sideRun,
                   pageStep, browserVars, shareVars>>

Calling(fn, args) == {[fn |-> fn, arg |-> a, done |-> FALSE, res |-> <<>>] : a \in args}

Return(fn, res) ==
    /\ call.fn = fn
    /\ ~call.done
    /\ call' = [call EXCEPT !.done = TRUE, !.res = res]
    /\ UNCHANGED otherThanCall

\* --------------------------------------------- the experience dropdown
\* apply_jobs.py 181-209.  An option text is a sequence of units: a number, a
\* word, or a blank.
Blank == " "
OptionTexts ==
    {<<"Fresher">>,
     <<"1", Blank, "year">>,
     <<"2", Blank, "years">>,
     <<"3", Blank, "years">>,
     <<"2", Blank, "Years", Blank>>,
     <<"2", Blank, "year">>}
OptionLists == SeqsUpTo(OptionTexts, MaxOptions)
\* JOB_EXPERIENCE, as int(experience) gives it (apply_jobs.py 185).
Experiences == {0, 1, 2, 3, 10}

\* str.lower() of a unit.
LowerWord(w) ==
    CASE w = "Fresher" -> "fresher"
      [] w = "Year" -> "year"
      [] w = "Years" -> "years"
      [] OTHER -> w
LowerText(t) == [i \in 1..Len(t) |-> LowerWord(t[i])]

\* str.strip()
RECURSIVE LStrip(_)
LStrip(t) == IF t # <<>> /\ Head(t) = Blank THEN LStrip(Tail(t)) ELSE t
RECURSIVE RStrip(_)
RStrip(t) ==
    IF t # <<>> /\ t[Len(t)] = Blank THEN RStrip(SubSeq(t, 1, Len(t) - 1)) ELSE t
Strip(t) == RStrip(LStrip(t))

\* target_text = f"{target_exp} years" if target_exp > 1 else
\* f"{target_exp} year", lowered                   (apply_jobs.py 186-187)
TargetText(n) ==
    LowerText(<<ToString(n), Blank, IF n > 1 THEN "years" ELSE "year">>)

\* apply_jobs.py 191-197: the test made on an option.
OptionMatches(text, n) ==
    LET option_text == LowerText(Strip(text))
    IN  \/ option_text = <<"fresher">> /\ n = 0
        \/ option_text = TargetText(n)

\* apply_jobs.py 183-209: the index of the option that is clicked (0: none),
\* and whether it is the fallback to the first option.
SelectExperience(options, n) ==
    IF options = <<>> THEN [selected |-> 0, fallback |-> FALSE]
    ELSE LET hits == {i \in 1..Len(options) : OptionMatches(options[i], n)}
         IN  IF hits # {}
               THEN [selected |-> First(hits), fallback |-> FALSE]
               ELSE [selected |-> 1, fallback |-> TRUE]

E_SelectExperience ==
    /\ call.fn = "select_experience"
    /\ Return("select_experience",
              SelectExperience(call.arg.options, call.arg.experience))

\* ------------------------------------------------- the success phrases
\* apply_jobs.py 555-577.  A phrase and the text of the page source are
\* sequences of characters, written here word by word.
Spell(w) ==
    CASE w = "You" -> <<"Y", "o", "u">>
      [] w = "have" -> <<"h", "a", "v", "e">>
      [] w = "Have" -> <<"H", "a", "v", "e">>
      [] w = "successfully" -> <<"s", "u", "c", "c", "e", "s", "s", "f", "u", "l", "l", "y">>
      [] w = "Successfully" -> <<"S", "u", "c", "c", "e", "s", "s", "f", "u", "l", "l", "y">>
      [] w = "applied" -> <<"a", "p", "p", "l", "i", "e", "d">>
      [] w = "Applied" -> <<"A", "p", "p", "l", "i", "e", "d">>
      [] w = "Application" -> <<"A", "p", "p", "l", "i", "c", "a", "t", "i", "o", "n">>
      [] w = "successful" -> <<"s", "u", "c", "c", "e", "s", "s", "f", "u", "l">>
      [] w = "already" -> <<"a", "l", "r", "e", "a", "d", "y">>
      [] w = "confirmed" -> <<"c", "o", "n", "f", "i", "r", "m", "e", "d">>
      [] w = "to" -> <<"t", "o">>

\* The characters of a sequence of words with one blank between them.
RECURSIVE Phrase(_)
Phrase(ws) ==
    IF ws = <<>> THEN <<>>
    ELSE IF Len(ws) = 1 THEN Spell(ws[1])
    ELSE Spell(ws[1]) \o <<Blank>> \o Phrase(Tail(ws))

\* success_patterns                                (apply_jobs.py 556-564)
success_patterns ==
    <<Phrase(<<"You", "have", "successfully", "applied">>),
      Phrase(<<"Application", "successful">>),
      Phrase(<<"Applied", "successfully">>),
      Phrase(<<"You", "have", "already", "applied">>),
      Phrase(<<"Application", "confirmed">>),
      Phrase(<<"successfully", "applied", "to">>),
      Phrase(<<"Successfully", "applied">>)>>

PageWords == {"You", "Have", "Successfully", "Applied", "already"}
PageSources == {Phrase(ws) : ws \in SeqsUpTo(PageWords, MaxPageWords)}

\* PatternFound with the pattern taken as it is written.
PatternFound_AsWritten(pattern, page_text) == IsIn(pattern, page_text)

\* if pattern.lower() in page_text                     (apply_jobs.py 571)
PatternFound(pattern, page_text) == IsIn(Lower(pattern), page_text)

\* apply_jobs.py 570-577: the loop over the patterns from the k-th on; the
\* index of the first pattern found, 0 when none is.
RECURSIVE MatchedPattern(_, _)
MatchedPattern(k, page_text) ==
    IF k > Len(success_patterns) THEN 0
    ELSE IF PatternFound(success_patterns[k], page_text) THEN k
    ELSE MatchedPattern(k + 1, page_text)

\* page_text = driver.page_source.lower()              (apply_jobs.py 567)
PhraseCheck(page_source) ==
    LET matched == MatchedPattern(1, Lower(page_source))
    IN  [success |-> matched # 0, matched_pattern |-> matched]

E_PhraseCheck ==
    /\ call.fn = "phrase_check"
    /\ Return("phrase_check", PhraseCheck(call.arg))

\* ------------------------------------------------- the fields of a row
\* apply_jobs.py 388-426.  What the lookups on a row give: the title element
\* is found by a.title, by a[title], or not at all; the lookup of the company
\* and of the location finds an element, finds none, or raises; the title
\* element has an href or has none.
Rows ==
    [title : {"a.title", "a[title]", "none"},
     company : {"present", "absent", "raise"},
     location : {"present", "absent", "raise"},
     link : BOOLEAN]

\* apply_jobs.py 401-411: the text of the element, or the placeholder when
\* there is no element or the lookup raised.
FieldOrPlaceholder(found, placeholder) ==
    IF found = "present" THEN "text" ELSE placeholder

\* SkipsRow that lets a row without title element through.
SkipsRow_Never(title) == FALSE

\* if not job_title_elements: ... continue          (apply_jobs.py 394-396)
SkipsRow(title) == title = "none"

\* apply_jobs.py 390-426: pre is how the row gets to window.open (a value of
\* RowPre), opened whether window.open is called for its link.
ExtractRow(row) ==
    IF SkipsRow(row.title)
      THEN [pre |-> "notitle", company |-> "unset", location |-> "unset", opened |-> FALSE]
      ELSE LET company == FieldOrPlaceholder(row.company, "Unknown Company")
               location == FieldOrPlaceholder(row.location, "Unknown Location")
           IN  IF ~row.link
                 THEN [pre |-> "nolink", company |-> company, location |-> location,
                       opened |-> FALSE]
                 ELSE [pre |-> "ok", company |-> company, location |-> location,
                       opened |-> TRUE]

E_ExtractRow ==
    /\ call.fn = "extract_row"
    /\ Return("extract_row", ExtractRow(call.arg))

\* ------------------------------------------- the strategies of a save click
\* rotate_headline.py 375-410.  raises[k] is whether the k-th strategy raises
\* when it is attempted.
AllSaveRaises == [1..Len(SaveStrategies) -> BOOLEAN]

\* TriesNext that goes on to the next strategy in every case.
TriesNext_Always(raised) == TRUE

\* except Exception: the next strategy stands in the handler of the one
\* before it                              (rotate_headline.py 379, 384, 396)
TriesNext(raised) == raised

\* The nested try statements from the k-th strategy on: the strategies
\* attempted, in order, and methods_tried.
RECURSIVE TryStrategies(_, _)
TryStrategies(k, raises) ==
    IF k > Len(SaveStrategies) THEN [attempted |-> <<>>, tried |-> <<>>]
    ELSE LET rest == IF TriesNext(raises[k]) THEN TryStrategies(k + 1, raises)
                     ELSE [attempted |-> <<>>, tried |-> <<>>]
         IN  [attempted |-> <<k>> \o rest.attempted,
              tried |-> (IF raises[k] THEN <<>> ELSE <<SaveStrategies[k]>>) \o rest.tried]

E_ClickSave ==
    /\ call.fn = "click_save_button"
    /\ Return("click_save_button", TryStrategies(1, call.arg))

\* ------------------------------------------------- the headline textarea
\* rotate_headline.py 482-528.  The value of the textarea and the chosen
\* headline are sequences of words and blanks.
FieldTexts ==
    {<<>>, <<"a">>, <<Blank, "a">>, <<"a", Blank>>, <<"b">>, <<"a", Blank, "b">>,
     <<"a", Blank, "b", Blank>>}

\* SameText that compares the texts as they are.
SameText_Exact(current_value, headline_text) == current_value = headline_text

\* if current_value.strip() == headline_text.strip()   (rotate_headline.py 491)
SameText(current_value, headline_text) == Strip(current_value) = Strip(headline_text)

\* rotate_headline.py 491-528: clear() and send_keys(headline_text) unless
\* the texts are the same; then the save control, if one is found, is handed
\* to click_save_button.
FillField(current_value, headline_text, saveButton) ==
    IF SameText(current_value, headline_text)
      THEN [rewritten |-> FALSE, value |-> current_value, saveClicked |-> saveButton]
      ELSE [rewritten |-> TRUE, value |-> <<>> \o headline_text, saveClicked |-> saveButton]

E_FillField ==
    /\ call.fn = "fill_field"
    /\ Return("fill_field",
              FillField(call.arg.current_value, call.arg.headline_text, call.arg.saveButton))

\* ------------------------------------------------------ check_and_apply
\* apply_jobs.py 486-700, called on a detail view of Observations.
E_CheckAndApply ==
    /\ call.fn = "check_and_apply"
    /\ Return("check_and_apply", CheckAndApply(call.arg))

InitCalls ==
    /\ InitRun
    /\ spc = "s_idle"
    /\ creds = [email |-> TRUE, password |-> TRUE]
    /\ target = 0
    /\ job_titles = <<"A">>
    /\ locations = <<"A">>
    /\ upl = NoUpload
    /\ call \in Calling("select_experience",
                        [options : OptionLists, experience : Experiences])
                 \cup Calling("phrase_check", PageSources)
                 \cup Calling("extract_row", Rows)
                 \cup Calling("click_save_button", AllSaveRaises)
                 \cup Calling("check_and_apply", Observations)
                 \cup Calling("fill_field",
                              [current_value : FieldTexts, headline_text : FieldTexts,
                               saveButton : BOOLEAN])

NextCalls ==
    \/ E_SelectExperience
    \/ E_PhraseCheck
    \/ E_ExtractRow
    \/ E_ClickSave
    \/ E_FillField
    \/ E_CheckAndApply

SpecCalls == InitCalls /\ [][NextCalls]_vars

\* ------------------------------------------- one call of process_job_listings
\* The first call of a run (apply_jobs.py 67): the session is logged in, the
\* search was made, and the quota is the target.
InitListing ==
    /\ InitIdle
    /\ call = NoCall
    /\ spc = "s_idle"
    /\ creds = [email |-> TRUE, password |-> TRUE]
    /\ target \in 1..MaxTarget
    /\ job_titles = <<"A">>
    /\ locations = <<"A">>
    /\ upl = NoUpload
    /\ jpc = "j_apply"
    /\ sessions = {"apply"}
    /\ loginRes = [t \in Tasks |-> IF t = "apply" THEN "true" ELSE "none"]
    /\ apc = "a_process"
    /\ searches = 1
    /\ selected_job_title = "A"
    /\ selected_location = "A"
    /\ lastSearch = [NoSearch EXCEPT !.title = "A", !.location = "A"]
    /\ frames = <<[q |-> target, applied |-> 0]>>
    /\ ppc = "p_find"

\* The steps of the call, of the calls it makes for the next pages, and of
\* the script it runs, up to the return to apply_for_jobs.
NextListing ==
    \/ P_Find
    \/ P_Loop
    \/ P_Row
    \/ P_Page
    \/ P_Return
    \/ P_Share
    \/ P_ShareDone
    \/ S_Start
    \/ Login
    \/ S_AfterLogin
    \/ S_Navigate
    \/ S_While
    \/ S_Fetch
    \/ S_Row
    \/ S_Quit
    \/ A_ProcessReturn

\* Python runs the statements of the call one after the other: a step that
\* can be taken is taken.
SpecListing == InitListing /\ [][NextListing]_vars /\ WF_vars(NextListing)

\* ================================================================= claims
\* The steps of a task that act on the site.
SiteAction(t) ==
    CASE t = "rotate" -> R_Navigate \/ R_ReadHeadline \/ R_Headline \/ R_Update \/ R_Upload
      [] t = "apply" -> A_Navigate \/ A_Search \/ A_Process \/ P_Find \/ P_Loop \/ P_Row
                        \/ P_Page \/ P_Share
      [] t = "share" -> S_Navigate \/ S_While \/ S_Fetch \/ S_Row

\* C1: the applied count of apply_for_jobs stays within 0..target, and the
\* count of every call of process_job_listings, the counts of its next-page
\* calls included, stays within 0..q, so every call returns r with 0 <= r <= q.
C1_QuotaBounded ==
    /\ applied \in 0..target
    /\ \A i \in 1..Len(frames) : frames[i].q >= 0 /\ frames[i].applied \in 0..frames[i].q

\* C1 witness: a next-page call is about to return a count that, added to its
\* caller's, fills the caller's quota.
C1_Witness ==
    /\ ppc = "p_ret" /\ Len(frames) = 2
    /\ frames[1].applied >= 1 /\ frames[2].applied >= 1
    /\ frames[1].applied + frames[2].applied = frames[1].q

\* C2: at most 3 searches per run; after a listing pass a fallback search
\* follows exactly when applied < target and fewer than 3 searches were made,
\* and otherwise the run goes to its end without another search.
C2_SearchPolicy ==
    [][ /\ searches' <= 3
        /\ (searches' # searches /\ searches >= 1) =>
              (searches' = searches + 1 /\ applied < target /\ searches < 3)
        /\ (apc = "a_while" /\ apc' # apc) =>
              /\ apc' = "a_search" <=> (applied < target /\ searches < 3)
              /\ apc' = "a_finally" <=> ~(applied < target /\ searches < 3)
        /\ (apc \in {"a_finally", "a_done"}) => searches' = searches
      ]_vars

\* C2 witness: the third search was processed with the quota unmet and the
\* run stops.
C2_Witness == apc = "a_finally" /\ searches = 3 /\ applied < target

\* C3: a row raises the count, and by one, only when its evaluation clicked an
\* apply control and then observed success; a row that was skipped, found no
\* control, stayed unconfirmed or raised leaves the count as it was.
C3_CountOnlyConfirmed ==
    [][ (ppc = "p_row" /\ ppc' = "p_loop") =>
          /\ TopApplied' \in {TopApplied, TopApplied + 1}
          /\ TopApplied' = TopApplied + 1 => (lastEval'.clicked /\ lastEval'.success)
          /\ lastEval'.tag \in {"None", "SkippedExternalSite", "NoApplyControl",
                                "Unconfirmed", "Error"} => TopApplied' = TopApplied
      ]_vars

\* C3 witness: a row was counted, and its evaluation ended Applied.
C3_Witness == ppc = "p_loop" /\ lastEval.tag = "Applied" /\ TopApplied >= 1

\* C4: when a row begins, no detail tab of an earlier row is open and the
\* focus is on the listing window.
C4_RowStartsClean == ppc = "p_row" => (leaked = 0 /\ focus = "main")

\* C5: one call of process_job_listings examines at most 5 * q rows of its
\* page; with q = 3 that is 15.
C5_Ceiling ==
    frames # <<>> =>
        /\ processed <= 5 * Top.q
        /\ Top.q = 3 => processed <= 15

\* C5 witness: quota 3, 15 rows examined, a further row on the page, the
\* quota unmet, and the loop has stopped.
C5_Witness ==
    /\ ppc = "p_page" /\ frames # <<>>
    /\ Top.q = 3 /\ processed = 15 /\ pending /\ Top.applied < 3

\* C6: one call of login submits at most 3 times; every failed attempt moves
\* the attempt counter by exactly one; after the third failed attempt login
\* returns failure without another attempt.
C6_LoginAttempts ==
    /\ submits <= 3
    /\ failed <= 3
    /\ lpc \in {"l_loop", "l_try", "l_submit"} => attempt = failed + 1
    /\ lpc \in {"l_try", "l_submit"} => attempt <= 3
    /\ failed = 3 => (lpc = "l_loop" \/ (lpc = "l_ret" /\ lresult = "false"))

\* C6 witness: three submissions failed and login returned failure.
C6_Witness == lpc = "l_ret" /\ lresult = "false" /\ submits = 3 /\ failed = 3

\* C7: with the username or the secret missing, login returns failure at
\* once: no navigation, no submission, no attempt.
C7_MissingCredentials ==
    ((~creds.email \/ ~creds.password) /\ lpc # "l_idle") =>
        /\ navs = 0 /\ submits = 0 /\ attempt = 0 /\ failed = 0
        /\ lpc \in {"l_creds", "l_ret"}
        /\ lpc = "l_ret" => lresult = "false"

\* C7 witness: login returned failure with only the secret missing.
C7_Witness ==
    /\ creds.email /\ ~creds.password
    /\ lpc = "l_ret" /\ lresult = "false"

\* C8: a task whose login returned failure takes no further step that acts on
\* the site.
C8_AbortOnLoginFailure ==
    [][ \A t \in Tasks : loginRes[t] = "false" => ~SiteAction(t) ]_vars

\* C9: with credentials present, login returns failure only after 3 failed
\* attempts.
C9_FailureOnlyAfterRetries ==
    (lpc = "l_ret" /\ lresult = "false" /\ creds.email /\ creds.password) => failed = 3

\* C10: when the URL after the navigation to the login page shows an
\* authenticated session, login returns success without submitting.
C10_AlreadyAuthenticated ==
    (lpc = "l_ret" /\ navs = 1 /\ submits = 0 /\ url.auth) => lresult = "true"

\* C11: when the pool holds two or more different headline texts and the
\* headline of the profile was read, the headline handed to
\* update_resume_headline is never the text the profile shows, also when one
\* pool headline is contained in another.
C11_NeverLiveHeadline ==
    (/\ rpc = "r_update"
     /\ headline.kind = "update"
     /\ Truthy(current_headline)
     /\ Cardinality(Choices(data.pool)) >= 2)
    => headline.text # profile

\* C12: when the headline of the profile could not be read (the read gave
\* null or raised) and the pool is not empty, the selection still ends with a
\* headline for update_resume_headline; the run is not abandoned.
C12_UnreadableStillUpdates ==
    (/\ headline.kind # "none"
     /\ data.loaded /\ data.pool # <<>>
     /\ ~Truthy(current_headline))
    => headline.kind = "update"

\* C13: when the pool holds more than one record and every record equals the
\* headline that was read, the headline drawn from the whole pool is the one
\* handed to update_resume_headline.
C13_FallbackApplied ==
    (/\ headline.kind # "none"
     /\ data.loaded /\ Len(data.pool) > 1
     /\ Truthy(current_headline)
     /\ \A i \in 1..Len(data.pool) : data.pool[i] = profile)
    => (headline.kind = "update" /\ headline.text \in Choices(data.pool))

\* C14: click_save_button returns true exactly when at least one of its four
\* strategies completed without raising and false exactly when all four
\* raised, whether or not the page took the save.
C14_SaveResult ==
    (upd.save.called /\ ~upd.save.raised)
    => /\ upd.save.result
            <=> (\E i \in 1..Len(SaveStrategies) : ~upd.save.raises[i])
       /\ ~upd.save.result
            <=> (\A i \in 1..Len(SaveStrategies) : upd.save.raises[i])
       /\ Len(SaveStrategies) = 4

\* C14 witness: the native click raised, the JavaScript click did not, the
\* page did not take the save, and click_save_button returned true.
C14_Witness ==
    /\ upd.save.called /\ ~upd.save.raised
    /\ upd.save.raises[1] /\ ~upd.save.raises[2]
    /\ ~upd.save.effect
    /\ upd.save.result

\* C15: when none of the checks of update_resume_headline matches, it
\* returns success only if a click strategy completed; it does not return
\* success when every strategy raised.
C15_FallbackNeedsSubmission ==
    (upd.called /\ upd.path = "assumed" /\ upd.result) => upd.save.result

\* C16: find_resume_file returns the first PDF, in listing order, whose name
\* contains (ignoring case) the earliest keyword of resume, cv, curriculum,
\* vitae, barkat that any PDF contains; else the first PDF; else nothing.  A
\* name that does not end in .pdf is never returned, and for notes.pdf,
\* John_Resume.pdf, cover.docx the result is John_Resume.pdf.
C16_FindResumeFile ==
    upl.called =>
      LET files == upl.files
          pdf == {i \in 1..Len(files) : EndsWith(Lower(files[i]), <<".", "p", "d", "f">>)}
          hit(k) == {i \in pdf : IsIn(resume_keywords[k], Lower(files[i]))}
          K == {k \in 1..Len(resume_keywords) : hit(k) # {}}
      IN  /\ K # {} => upl.resume = files[First(hit(First(K)))]
          /\ (K = {} /\ pdf # {}) => upl.resume = files[First(pdf)]
          /\ pdf = {} => upl.resume = NoFile
          /\ upl.resume # NoFile => \E i \in pdf : files[i] = upl.resume
          /\ files = <<<<"n", "o", "t", "e", "s", ".", "p", "d", "f">>,
                       <<"J", "o", "h", "n", "_", "R", "e", "s", "u", "m", "e", ".", "p", "d", "f">>,
                       <<"c", "o", "v", "e", "r", ".", "d", "o", "c", "x">>>>
               => upl.resume = <<"J", "o", "h", "n", "_", "R", "e", "s", "u", "m", "e", ".", "p", "d", "f">>

\* C16 witness: the listing notes.pdf, John_Resume.pdf, cover.docx was
\* searched and John_Resume.pdf was returned.
C16_Witness ==
    /\ upl.called
    /\ upl.files = <<<<"n", "o", "t", "e", "s", ".", "p", "d", "f">>,
                     <<"J", "o", "h", "n", "_", "R", "e", "s", "u", "m", "e", ".", "p", "d", "f">>,
                     <<"c", "o", "v", "e", "r", ".", "d", "o", "c", "x">>>>
    /\ upl.resume = <<"J", "o", "h", "n", "_", "R", "e", "s", "u", "m", "e", ".", "p", "d", "f">>

\* C17: upload_resume hands the path to the file input at most once; once
\* the path was handed over without an exception the result is success
\* whether or not a success indicator shows; the result is failure exactly
\* when no file input was found, no resume file was resolved, or the
\* submission raised.
C17_UploadResume ==
    upl.called =>
      /\ upl.sends \in {0, 1}
      /\ (upl.sends = 1 /\ ~upl.submitRaised) => upl.result
      /\ ~upl.result <=> (~upl.inputFound \/ upl.resume = NoFile \/ upl.submitRaised)

\* C17 witness: the path was handed over once, no success indicator showed,
\* and the upload was reported as successful.
C17_Witness ==
    /\ rpc = "r_finally"
    /\ upl.called /\ upl.inputFound /\ upl.resume # NoFile
    /\ upl.sends = 1 /\ ~upl.submitRaised /\ ~upl.indicator
    /\ upl.result

\* C18: check_and_apply clicks nothing when the company-site indicator shows
\* or when no apply control is found; otherwise it clicks the first matched
\* control, and a control whose text mentions company is never the one
\* clicked.
C18_ApplyControl ==
    /\ lastEval.tag \in {"SkippedExternalSite", "NoApplyControl"} => ~lastEval.clicked
    /\ lastEval.clicked => ~lastEval.company

\* C19: the primary search asks for the sort order Relevance and every
\* fallback search for Date; every search asks for the recency Last 1 day;
\* and when the recency could not be set the sort order is still attempted.
C19_SearchSettings ==
    lastSearch.called =>
      /\ lastSearch.fallback <=> searches > 1
      /\ lastSearch.sortTarget # "none"
           => lastSearch.sortTarget = (IF searches = 1 THEN "Relevance" ELSE "Date")
      /\ lastSearch.freshTarget # "none" => lastSearch.freshTarget = "Last 1 day"
      /\ lastSearch.entry = "ok"
           => (lastSearch.fresh # "skipped" /\ lastSearch.sort # "skipped")
      /\ lastSearch.fresh \in {"missing", "raise"} => lastSearch.sort # "skipped"

\* C19 witness: a fallback search in which setting the recency raised and the
\* sort order Date was then selected.
C19_Witness ==
    /\ lastSearch.called /\ searches = 2
    /\ lastSearch.fresh = "raise"
    /\ lastSearch.sort = "selected" /\ lastSearch.sortTarget = "Date"

\* C20: on every step to a fallback search the title differs from the title
\* of the search before whenever the list of titles holds another value, and
\* is the same title when it holds one value only; the same for the
\* location; and the fallback search is made in either case.
C20_FallbackResample ==
    [][(apc = "a_while" /\ apc' # "a_while" /\ TryFallback(applied, target, searches))
       => /\ apc' = "a_search"
          /\ selected_job_title' \in Choices(job_titles)
          /\ selected_location' \in Choices(locations)
          /\ (Choices(job_titles) # {selected_job_title})
               <=> (selected_job_title' # selected_job_title)
          /\ (Choices(locations) # {selected_location})
               <=> (selected_location' # selected_location)]_vars

\* C20 witness: a second search is due with a title other than the first
\* search's, and with the location of the first search because the list of
\* locations holds one value only.
C20_Witness ==
    /\ apc = "a_search" /\ searches = 1
    /\ lastSearch.title \in Choices(job_titles)
    /\ selected_job_title # lastSearch.title
    /\ selected_location = lastSearch.location
    /\ Len(locations) = 2

\* ------------------------------------------------------------ C21 .. C30

\* C21: the count apply_for_jobs reports is the sum of the counts that
\* process_job_listings returned after each search: the first pass is given
\* the target and starts from the count 0, every fallback pass is given
\* target - applied, and every pass adds what it returned to the count, which
\* the end of the run reports as it is.  With the target 2, a first pass of 1
\* and a fallback pass of 1, the count is 2 after one fallback search.
C21_ReportedCountIsSum ==
    [][/\ (apc = "a_call" /\ searches = 1) => applied = 0
       /\ (apc = "a_call" /\ apc' = "a_process")
            => (Len(frames') = 1 /\ frames'[1].q = target - applied)
       /\ (apc = "a_process" /\ apc' = "a_while")
            => /\ new_applications' = TopApplied
               /\ applied' = applied + new_applications'
               /\ (target = 2 /\ searches = 2 /\ applied = 1 /\ TopApplied = 1)
                    => (applied' = 2 /\ searches' = 2)
       /\ (apc = "a_finally" /\ apc' = "a_done") => applied' = applied]_vars

\* C21 witness: target 2, the first pass applied to 1 job and the pass after
\* the one fallback search to 1 more.
C21_Witness ==
    /\ apc = "a_while" /\ target = 2 /\ searches = 2
    /\ applied = 2 /\ new_applications = 1

C23_ShareAtCeiling ==
    [][/\ (/\ ppc = "p_loop" /\ ppc' \notin {"p_loop", "p_row"}
           /\ Top.applied < Top.q
           /\ processed >= MaxJobsToProcess(Top.q)
           /\ earlyAccess')
            => ppc' = "p_share"
       /\ (ppc # "p_share" /\ ppc' = "p_share")
            => (earlyAccess' /\ Top.applied < Top.q)]_vars

\* C24: a run of share_interest.py that could not be started, or that failed,
\* leaves the count of the listing call and of apply_for_jobs as it was, and
\* process_job_listings goes on to its pagination step, from which it returns
\* that count.
C24_SideFailureKeepsFlow ==
    [][/\ ppc = "p_share" => (frames' = frames /\ applied' = applied)
       /\ (ppc = "p_share" /\ ppc' # "p_share")
            => (ppc' = "p_page" /\ sideRun' \in {"raised", "failed", "ended"})
       /\ (ppc = "p_page" /\ sideRun \in {"raised", "failed"} /\ ppc' # "p_page")
            => /\ ppc' \in {"p_ret", "p_find"}
               /\ ppc' = "p_ret" => frames' = frames
               /\ ppc' = "p_find" => SubSeq(frames', 1, Len(frames)) = frames]_vars

\* C24 witness: share_interest.py failed after 1 application on the page, and
\* the pagination step is next.
C24_Witness ==
    /\ ppc = "p_page" /\ sideRun = "failed"
    /\ frames # <<>> /\ Top.applied = 1

\* C25: the count of share_interest never exceeds the limit, and no more
\* clicks are made than the limit allows.
C25_ShareWithinLimit ==
    /\ shared <= shareLimit
    /\ shareClicks <= shareLimit

\* C25 witness: the limit 2 has been reached with 2 clicks and the loop is
\* over.
C25_Witness ==
    /\ spc = "s_done" /\ shareLimit = 2
    /\ shared = 2 /\ shareClicks = 2

\* C26: when a pass over the rows of the feed ends without an action on any
\* row, the loop of share_interest ends.
C26_NoActionEndsLoop ==
    [][(spc = "s_while" /\ feed > 0 /\ sidx >= feed /\ setClicks = 0)
       => spc' = "s_quit"]_vars

\* C27: no set of rows fetched by share_interest is used for more than one
\* click.
C27_OneActionPerFetch == setClicks <= 1

\* The for loop of share_interest is at a row it is going to act on
\* (share_interest.py 50-54).
RowStep == spc = "s_row" /\ sidx < feed /\ ShareMore(shared, shareLimit)

\* C28 as stated: after a stale-element exception or a generic exception on a
\* row the for loop is at the next row; an exception while fetching ends the
\* loop; the count is not decreased.
C28_ExceptionMovesToNextRow ==
    [][/\ (RowStep /\ rowEvent' \in {"skip", "stale", "clickedRaised"})
            => (spc' = "s_row" /\ sidx' = sidx + 1 /\ shared' >= shared)
       /\ (spc = "s_fetch" /\ spc' = "s_quit") => shared' = shared]_vars

\* C28 as amended: a generic exception on a row moves the for loop to the next
\* row of the fetched set; a stale-element exception ends the pass over the
\* fetched set with the count as it was, and the rows are fetched again; an
\* exception while fetching ends the loop; the count is never decreased.
C28_ExceptionHandling ==
    [][/\ (RowStep /\ rowEvent' \in {"skip", "clickedRaised"})
            => (spc' = "s_row" /\ sidx' = sidx + 1 /\ shared' >= shared)
       /\ (RowStep /\ rowEvent' = "stale")
            => (spc' = "s_while" /\ sidx' = sidx /\ shared' = shared)
       /\ (spc = "s_while" /\ rowEvent = "stale") => spc' = "s_fetch"
       /\ (spc = "s_fetch" /\ spc' = "s_quit") => shared' = shared
       /\ shared' < shared => spc' = "s_idle"]_vars

\* C28 witness: a stale element on the second row of a fetched set ended the
\* pass after a click that was counted, and the rows are about to be fetched
\* again.
C28_Witness ==
    /\ spc = "s_fetch" /\ rowEvent = "stale"
    /\ sidx = 1 /\ shared = 1 /\ setClicks = 1

\* C29: at most one browser session is live at every point.
C29_OneSession == Cardinality(sessions) <= 1

\* C30: from the search on, no failure ends apply_for_jobs otherwise than
\* through its finally block and the return of the count: a search, failed or
\* not, leaves the count as it was, a listing pass in progress leaves it as it
\* was, the count never decreases, the steps to the finally block and from it
\* to the return keep it, and it is 0 at the return when login failed.
C30_FailuresKeepCount ==
    [][/\ apc = "a_search" => (applied' = applied /\ apc' \in {"a_search", "a_call"})
       /\ (apc = "a_process" /\ apc' = "a_process") => applied' = applied
       /\ (apc \notin {"a_idle", "a_start", "a_done"}) => applied' >= applied
       /\ (apc # "a_finally" /\ apc' = "a_finally") => applied' = applied
       /\ (apc = "a_finally" /\ apc' # "a_finally")
            => /\ apc' = "a_done"
               /\ applied' = applied
               /\ loginRes["apply"] # "true" => applied' = 0]_vars

\* C30 witness: a fallback search failed with 1 application counted before
\* it, and the count is still 1.
C30_Witness ==
    /\ apc = "a_call" /\ searches = 2
    /\ lastSearch.called /\ lastSearch.entry = "aborted"
    /\ applied = 1

\* ------------------------------------------------------------ C31 .. C40

\* The text, compared without regard to case and to the singular or plural of
\* year, denotes n years; Fresher denotes 0 years.
Denotes(text, n) ==
    LET t == LowerText(Strip(text))
    IN  \/ n = 0 /\ t = <<"fresher">>
        \/ t \in {<<ToString(n), Blank, "year">>, <<ToString(n), Blank, "years">>}

\* C31: of a list of option texts the option selected for the experience n is
\* one whose text denotes n years, and the first option when no text does.
C31_ExperienceSelection ==
    (call.fn = "select_experience" /\ call.done /\ call.arg.options # <<>>)
    => LET options == call.arg.options
           hits == {i \in 1..Len(options) : Denotes(options[i], call.arg.experience)}
       IN  IF hits # {} THEN call.res.selected \in hits ELSE call.res.selected = 1

\* Two characters that are the same letter in either case.
CasePairs ==
    {<<"A", "a">>, <<"H", "h">>, <<"S", "s">>, <<"Y", "y">>}
SameLetter(a, b) == a = b \/ <<a, b>> \in CasePairs \/ <<b, a>> \in CasePairs

\* The phrase occurs in the text when case is ignored.
OccursIgnoringCase(phrase, text) ==
    \E i \in 0..(Len(text) - Len(phrase)) :
        \A k \in 1..Len(phrase) : SameLetter(text[i + k], phrase[k])

\* C32: the phrase check of check_and_apply yields success exactly when a
\* phrase of success_patterns occurs in the page source with case ignored,
\* and the pattern it reports is the first such phrase of the list.
C32_PhraseCheck ==
    (call.fn = "phrase_check" /\ call.done)
    => LET found == {k \in 1..Len(success_patterns) :
                       OccursIgnoringCase(success_patterns[k], call.arg)}
       IN  /\ call.res.success <=> found # {}
           /\ found # {} => call.res.matched_pattern = First(found)

\* C32 witness: the page source You Have Successfully Applied was checked and
\* gave success.
C32_Witness ==
    /\ call.fn = "phrase_check" /\ call.done
    /\ call.arg = Phrase(<<"You", "Have", "Successfully", "Applied">>)
    /\ call.res.success

\* C33 as stated: a row whose title element has a link is opened whichever of
\* title, company and location is absent, with a placeholder for what is
\* absent.
C33_AbsenceNeverAborts ==
    (call.fn = "extract_row" /\ call.done /\ call.arg.link)
    => /\ call.res.opened
       /\ call.arg.company # "present" => call.res.company = "Unknown Company"
       /\ call.arg.location # "present" => call.res.location = "Unknown Location"

\* C33 as amended: the absence of the company or of the location, or a failed
\* lookup of either, gives the placeholder and the row goes on; a row without
\* title element is skipped and its detail link is not opened; a row with a
\* title element is opened exactly when that element has a link.
C33_AbsentFields ==
    (call.fn = "extract_row" /\ call.done)
    => /\ call.arg.title = "none" => (~call.res.opened /\ call.res.pre = "notitle")
       /\ call.arg.title # "none"
            => /\ call.res.opened <=> call.arg.link
               /\ call.res.company
                    = (IF call.arg.company = "present" THEN "text" ELSE "Unknown Company")
               /\ call.res.location
                    = (IF call.arg.location = "present" THEN "text" ELSE "Unknown Location")
       /\ call.res.pre \in RowPre

\* C33 witness: a row with a title element, no company element and a location
\* lookup that raised was opened with both placeholders.
C33_Witness ==
    /\ call.fn = "extract_row" /\ call.done
    /\ call.arg.title = "a[title]" /\ call.arg.company = "absent"
    /\ call.arg.location = "raise" /\ call.arg.link
    /\ call.res.opened
    /\ call.res.company = "Unknown Company" /\ call.res.location = "Unknown Location"

\* C34: click_save_button attempts its strategies in the order direct click,
\* JavaScript click, dispatched event, form submission; the k-th strategy is
\* attempted exactly when every strategy before it raised; at most one
\* strategy completes, it is the last one attempted, and it is the one
\* recorded in methods_tried.
C34_StrategyOrder ==
    (call.fn = "click_save_button" /\ call.done)
    => LET raises == call.arg
           attempted == call.res.attempted
           completed == {i \in 1..Len(attempted) : ~raises[attempted[i]]}
       IN  /\ SaveStrategies = <<"direct", "javascript", "event", "form">>
           /\ \A i \in 1..Len(attempted) : attempted[i] = i
           /\ \A k \in 1..Len(SaveStrategies) :
                (k \in 1..Len(attempted)) <=> (\A j \in 1..(k - 1) : raises[j])
           /\ Cardinality(completed) <= 1
           /\ completed # {} => completed = {Len(attempted)}
           /\ call.res.tried = MethodsTried(raises)

\* C34 witness: the direct click and the JavaScript click raised, the
\* dispatched event did not, and the form submission, which would have raised,
\* was not attempted.
C34_Witness ==
    /\ call.fn = "click_save_button" /\ call.done
    /\ call.arg = <<TRUE, TRUE, FALSE, TRUE>>
    /\ call.res.attempted = <<1, 2, 3>>
    /\ call.res.tried = <<"event">>

\* The text without the blanks before its first word and after its last.
Trimmed(t) ==
    LET words == {i \in 1..Len(t) : t[i] # Blank}
    IN  IF words = {} THEN <<>>
        ELSE SubSeq(t, First(words), CHOOSE i \in words : \A j \in words : j <= i)

\* C35: update_resume_headline clears and rewrites the textarea exactly when
\* its trimmed value differs from the trimmed headline, after which it holds
\* the headline; when they are equal the value is left as it was; in both
\* cases the save control that is found is clicked.
C35_RewriteIffDifferent ==
    (call.fn = "fill_field" /\ call.done)
    => LET differ == Trimmed(call.arg.current_value) # Trimmed(call.arg.headline_text)
       IN  /\ call.res.rewritten <=> differ
           /\ differ => call.res.value = call.arg.headline_text
           /\ ~differ => call.res.value = call.arg.current_value
           /\ call.res.saveClicked <=> call.arg.saveButton

\* C35 witness: the textarea held the headline followed by a blank; it was
\* not rewritten and the save control was clicked.
C35_Witness ==
    /\ call.fn = "fill_field" /\ call.done
    /\ call.arg.current_value = <<"a", Blank, "b", Blank>>
    /\ call.arg.headline_text = <<"a", Blank, "b">>
    /\ ~call.res.rewritten
    /\ call.res.value = <<"a", Blank, "b", Blank>>
    /\ call.res.saveClicked

\* C36: in one call of check_and_apply at most one confirm control is clicked,
\* and one is clicked only when the success check after the apply click found
\* nothing.
C36_OneConfirmation ==
    (call.fn = "check_and_apply" /\ call.done)
    => /\ call.res.confirmClicks <= 1
       /\ call.res.confirmClicks > 0 => ~SuccessCheck(call.arg.phrase, call.arg.elem)

\* C37: every task quits the browser session it acquired exactly once: never
\* twice in a run, and once when the run is over.
C37_TeardownOnce ==
    /\ \A t \in Tasks : quits[t] <= 1
    /\ rpc = "r_done" => quits["rotate"] = 1
    /\ apc = "a_done" => quits["apply"] = 1
    /\ spc = "s_done" => quits["share"] = 1

\* C40: while process_job_listings runs, the listing window stays open.
C40_ListingWindowStaysOpen == ppc # "p_none" => mainOpen

\* C38: every increment of the count of a listing call is for a listing that
\* this run of apply_for_jobs has not counted before.
C38_CountedOnce ==
    [][(ppc = "p_row" /\ TopApplied' > TopApplied) => ~lastEval'.seen]_vars

====
